---- MODULE Spec2Model ----
(***************************************************************************)
(* Model of the AndroMancer orchestration engine                           *)
(* (src/andromancer/core/agent.py, core/capabilities/base.py,              *)
(*  core/reasoning.py, core/llm_client.py, skills/base.py).                *)
(*                                                                         *)
(* Conventions                                                             *)
(*   - Python None is the string "None"; a parameter map is a record with  *)
(*     the keys the validators read (x, y, element, text), an absent key   *)
(*     holding "None".                                                     *)
(*   - Error texts are tuples of strings (<<prefix, detail>>), so that the *)
(*     f-strings of the code are kept without string concatenation.        *)
(*   - Confidences are in hundredths (0.9 is 90).                          *)
(***************************************************************************)
EXTENDS Integers, Sequences, FiniteSets, TLC

(***************************************************************************)
(* Bounds of the model                                                     *)
(***************************************************************************)
MaxSteps == 2
MaxPlan == 2
LoopPlan == 1
MaxSkills == 2
MaxMemories == 2
MaxRetrievals == 2
MaxTopK == 2
MaxEmits == 1001
MaxHandlers == 2
MaxMissions == 2
MaxBatch == 2

(***************************************************************************)
(* Program constants                                                       *)
(***************************************************************************)
max_retries == 3
OverrideThreshold == 90

NoneV == "None"
NoError == <<>>

RiskLevels == {"low", "medium", "high", "critical"}

(***************************************************************************)
(* EventBus (core/agent.py, lines 51-66).  An AgentEvent is its type and   *)
(* its content; the timestamp is left out.                                 *)
(***************************************************************************)
HistoryLimit == 1000

AgentEvent(type, content) == [type |-> type, content |-> content]

\* A history without maxlen.
deque_append_unbounded(history, events) == history \o events

\* Lines 55 and 61: deque(maxlen=1000).append, for each event in turn; a full
\* deque drops its oldest entry.
deque_append(history, events) ==
    LET all == history \o events
    IN  IF Len(all) > HistoryLimit
        THEN SubSeq(all, Len(all) - HistoryLimit + 1, Len(all))
        ELSE all

\* An emit without the try/except of lines 63-66: the exception of a handler
\* leaves the call.
AfterHandlerUncaught(d, handler, recorded) ==
    IF handler = "raises"
    THEN [d EXCEPT !.delivered = Append(@, [handler |-> d.next, recorded |-> recorded]),
                   !.event = <<>>, !.raised = TRUE]
    ELSE [d EXCEPT !.delivered = Append(@, [handler |-> d.next, recorded |-> recorded]),
                   !.next = @ + 1]

\* Lines 62-66: the handler at position d.next was awaited; it returned, or
\* it raised and the exception was logged.  The loop goes on either way.
AfterHandler(d, handler, recorded) ==
    [d EXCEPT !.delivered = Append(@, [handler |-> d.next, recorded |-> recorded]),
              !.next = @ + 1]

\* The events of the orchestrator (core/agent.py), by the line that emits them.
ObservationEvent(step, screen) ==
    AgentEvent("OBSERVATION", [step |-> step, screen |-> screen])

SkillStartEvent(actions) ==
    AgentEvent("SKILL_START", [skill_override |-> TRUE, actions |-> Len(actions)])

SkillEndEvent(rs) ==
    AgentEvent("SKILL_END", [success |-> \A k \in 1..Len(rs) : rs[k].success])

ActionEvent(action, result) ==
    AgentEvent("ACTION", [capability |-> action.capability, success |-> result.success])

ReportEvent(summary) == AgentEvent("REPORT", [summary |-> summary])

\* The event of a completion that found no mission.
CompletionEventUnknown(m) ==
    AgentEvent("COMPLETION", [mission_id |-> NoneV, status |-> "UNKNOWN"])

\* Lines 362-365.
CompletionEvent(m) ==
    AgentEvent("COMPLETION", [mission_id |-> m.id, status |-> m.status])

\* A safety callback that approves without a trace.
_check_safety_silent(name, params) == <<>>

\* AndroMancerAgent._check_safety, lines 333-339: the event it emits before
\* it approves.
_check_safety(name, params) ==
    << AgentEvent("SAFETY_CHECK", [capability |-> name, params |-> params]) >>

\* The catalog built by AndroMancerAgent._register_default_capabilities with
\* the risk_level of each capability class.
DefaultCapabilities ==
    [n \in {"tap", "type", "swipe", "back", "get_ui", "open_app", "get_secret", "wait"} |->
        IF n \in {"type", "get_secret"} THEN "medium" ELSE "low"]

\* CapabilityRegistry.register: the catalog is keyed by the capability's name.
register(caps, name, risk) ==
    [n \in (DOMAIN caps) \cup {name} |-> IF n = name THEN risk ELSE caps[n]]

(***************************************************************************)
(* ExecutionResult(success, data, error); src is the position in the plan  *)
(* of the action the result was produced for (0: not a plan action).       *)
(***************************************************************************)
ExecutionResult(success, error, src) ==
    [success |-> success, error |-> error, src |-> src]

(***************************************************************************)
(* Parameter maps and actions of a plan                                    *)
(***************************************************************************)
Params(x, y, element, text) == [x |-> x, y |-> y, element |-> element, text |-> text]
NoParams == Params(NoneV, NoneV, NoneV, NoneV)

\* Python truthiness of the values a parameter can hold in the model.
Truthy(v) == v \notin {NoneV, "", "{}", "0"}

TapError ==
    <<"Action 'tap' requires either 'x' and 'y' coordinates OR an 'element' dictionary. None provided. Check the UI observation again for coordinates.">>
TypeError == <<"Action 'type' requires 'text' parameter.">>

\* A validator that forgets the type action.
ValidateActionTapOnly(action) ==
    IF action.capability = "tap"
          /\ ~(action.params.x # NoneV /\ action.params.y # NoneV)
          /\ ~Truthy(action.params.element)
    THEN TapError
    ELSE NoError

\* AndroMancerAgent._validate_action: the error text, or NoError for None.
ValidateAction(action) ==
    IF action.capability = "tap"
          /\ ~(action.params.x # NoneV /\ action.params.y # NoneV)
          /\ ~Truthy(action.params.element)
    THEN TapError
    ELSE IF action.capability = "type" /\ ~Truthy(action.params.text)
    THEN TypeError
    ELSE NoError

(***************************************************************************)
(* What the device does when a capability's action is invoked: it returns  *)
(* a successful result, returns a failed result, or raises.                *)
(***************************************************************************)
CapOutcomes ==
    { [kind |-> "return", success |-> TRUE,  error |-> NoError],
      [kind |-> "return", success |-> FALSE, error |-> <<"stderr">>],
      [kind |-> "raise",  success |-> FALSE, error |-> <<"boom">>] }

\* An except branch that drops the exception text.
ExecuteActionNoText(outcome, src) ==
    IF outcome.kind = "raise"
    THEN ExecutionResult(FALSE, NoError, src)
    ELSE ExecutionResult(outcome.success, outcome.error, src)

\* CapabilityRegistry.execute, lines 105-111: the try/except around the action.
ExecuteAction(outcome, src) ==
    IF outcome.kind = "raise"
    THEN ExecutionResult(FALSE, outcome.error, src)
    ELSE ExecutionResult(outcome.success, outcome.error, src)

\* AndroMancerAgent._check_safety approves every request; a plugged callback
\* may reject.
Approves(callback) == callback = "_check_safety"

\* A gate that only knows the critical level.
NeedsSafetyCheckCriticalOnly(caps, name) == caps[name] = "critical"

\* Line 100: the capability is gated by the safety callback.
NeedsSafetyCheck(caps, name) == caps[name] \in {"high", "critical"}

\* An execute without the lookup test of lines 96-98.
ExecuteGateNoLookup(caps, callback, name) ==
    IF name \in DOMAIN caps /\ NeedsSafetyCheck(caps, name) /\ ~Approves(callback)
    THEN "reject"
    ELSE "invoke"

\* CapabilityRegistry.execute, lines 95-103: what happens before the action.
\* "reject" and "unknown" return at once, "invoke" goes on to the action.
ExecuteGate(caps, callback, name) ==
    IF name \notin DOMAIN caps THEN "unknown"
    ELSE IF NeedsSafetyCheck(caps, name) /\ ~Approves(callback) THEN "reject"
    ELSE "invoke"

\* The calls CapabilityRegistry.execute makes for plan action i up to the
\* invocation of the action, in order.
ExecuteCalls(caps, callback, name, i) ==
    LET gate == ExecuteGate(caps, callback, name)
    IN  << <<"execute", i>> >>
          \o (IF name \in DOMAIN caps /\ NeedsSafetyCheck(caps, name)
              THEN << <<"safety", i>> >> ELSE <<>>)
          \o (IF gate = "invoke" THEN << <<"action", i>> >> ELSE <<>>)

\* The events CapabilityRegistry.execute causes for a plan action: the safety
\* callback is awaited for a registered high or critical capability (lines
\* 100-101), and the orchestrator's callback emits; a plugged one does not.
ExecuteEvents(caps, callback, action) ==
    IF /\ action.capability \in DOMAIN caps
       /\ NeedsSafetyCheck(caps, action.capability)
       /\ callback = "_check_safety"
    THEN _check_safety(action.capability, action.params)
    ELSE <<>>

\* What the invoked action did, as the device saw it.
ActionEnded(caps, callback, name, outcome, i) ==
    IF ExecuteGate(caps, callback, name) = "invoke"
    THEN << <<outcome.kind, i>> >> ELSE <<>>

\* CapabilityRegistry.execute as a whole, for the outcome the action has.
Execute(caps, callback, name, outcome, src) ==
    CASE ExecuteGate(caps, callback, name) = "unknown" ->
            ExecutionResult(FALSE, <<"Unknown capability: ", name>>, src)
      [] ExecuteGate(caps, callback, name) = "reject" ->
            ExecutionResult(FALSE, <<"Safety check failed or rejected">>, src)
      [] OTHER -> ExecuteAction(outcome, src)

(***************************************************************************)
(* Actions of a plan (ActionStep): capability "None" stands for a map with *)
(* no "capability" key, which the orchestrator reads with action[...].     *)
(***************************************************************************)
Action(capability, params, critical, depends_on) ==
    [capability |-> capability, params |-> params,
     critical |-> critical, depends_on |-> depends_on]

HasCapabilityKey(action) == action.capability # NoneV

RECURSIVE SeqsUpTo(_, _)
SeqsUpTo(S, n) ==
    IF n = 0 THEN { <<>> }
    ELSE LET shorter == SeqsUpTo(S, n - 1)
         IN  shorter \cup { Append(s, e) : s \in {t \in shorter : Len(t) = n - 1}, e \in S }

(***************************************************************************)
(* SkillRegistry.check_skills.  SkillResult(actions, confidence,           *)
(* can_handle, override_llm, suggestion); an evaluation is the result a    *)
(* skill returns or the fact that its evaluate raised.                     *)
(***************************************************************************)
SkillResult(name, actions, confidence, can_handle, override_llm, suggestion) ==
    [raises |-> FALSE, name |-> name, actions |-> actions, confidence |-> confidence,
     can_handle |-> can_handle, override_llm |-> override_llm, suggestion |-> suggestion]

\* SkillPriority (skills/base.py, lines 7-10), the class attribute of a skill.
SkillPriority == {"CRITICAL", "ADVISORY", "EMERGENCY"}

\* The evaluation of a skill next to the priority attribute of the skill.
Tagged(r, priority) ==
    [f \in DOMAIN r \cup {"priority"} |-> IF f = "priority" THEN priority ELSE r[f]]

\* The SkillResult alone.
Untagged(r) == [f \in DOMAIN r \ {"priority"} |-> r[f]]

SkillRaises(name) ==
    [raises |-> TRUE, name |-> name, actions |-> <<>>, confidence |-> 0,
     can_handle |-> FALSE, override_llm |-> FALSE, suggestion |-> NoneV]

\* A comparison with >= in place of >, which lets a later skill win a tie.
KeepBestLatest(best, r) ==
    IF r.override_llm /\ (best = <<>> \/ r.confidence >= best[1].confidence)
    THEN IF r.confidence > OverrideThreshold THEN <<r>> ELSE best
    ELSE best

\* An override only a skill tagged CRITICAL may claim.
KeepBestCriticalOnly(best, r) ==
    IF r.priority = "CRITICAL" /\ r.override_llm
         /\ (best = <<>> \/ r.confidence > best[1].confidence)
    THEN IF r.confidence > OverrideThreshold THEN <<r>> ELSE best
    ELSE best

\* Lines 46-48: best_override after one result; <<>> is None, <<r>> is r.
KeepBest(best, r) ==
    IF r.override_llm /\ (best = <<>> \/ r.confidence > best[1].confidence)
    THEN IF r.confidence > OverrideThreshold THEN <<r>> ELSE best
    ELSE best

\* A suggestion list that leaves out the results that override.
KeepSuggestionAdvisoryOnly(suggestions, r) ==
    IF Truthy(r.suggestion) /\ ~r.override_llm
    THEN Append(suggestions, <<r.name, r.suggestion>>)
    ELSE suggestions

\* Lines 50-51: the suggestion list after one result.
KeepSuggestion(suggestions, r) ==
    IF Truthy(r.suggestion)
    THEN Append(suggestions, <<r.name, r.suggestion>>)
    ELSE suggestions

\* What check_skills has so far: best_override, suggestions, the skills
\* whose evaluate was awaited, and whether an exception has left the loop.
NoSkillReturn == [override |-> <<>>, suggestions |-> <<>>, evaluated |-> <<>>, raised |-> FALSE]

\* One iteration without the try/except of lines 43 and 52-54.
SkillStepUncaught(acc, r) ==
    IF r.raises
    THEN [acc EXCEPT !.evaluated = Append(@, r.name), !.raised = TRUE]
    ELSE IF ~r.can_handle
    THEN [acc EXCEPT !.evaluated = Append(@, r.name)]
    ELSE [override |-> KeepBest(acc.override, r),
          suggestions |-> KeepSuggestion(acc.suggestions, r),
          evaluated |-> Append(acc.evaluated, r.name),
          raised |-> acc.raised]

\* Lines 42-54: one iteration of the loop; the exception of a skill is
\* caught and logged, and a result that cannot handle the goal is skipped.
SkillStep(acc, r) ==
    IF r.raises \/ ~r.can_handle
    THEN [acc EXCEPT !.evaluated = Append(@, r.name)]
    ELSE [override |-> KeepBest(acc.override, r),
          suggestions |-> KeepSuggestion(acc.suggestions, r),
          evaluated |-> Append(acc.evaluated, r.name),
          raised |-> acc.raised]

\* The loop of check_skills over the evaluations of the registered skills,
\* in registration order; an exception that left an iteration would end it.
RECURSIVE CheckSkillsFrom(_, _, _)
CheckSkillsFrom(evals, i, acc) ==
    IF i > Len(evals) \/ acc.raised
    THEN acc
    ELSE CheckSkillsFrom(evals, i + 1, SkillStep(acc, evals[i]))

check_skills(evals) == CheckSkillsFrom(evals, 1, NoSkillReturn)

(***************************************************************************)
(* The oracle: AsyncLLMClient.complete_chat and ReActEngine.reason.        *)
(* A reply is what the HTTP exchange ends with: transport is "ok" when a   *)
(* response came back, otherwise the error _request_with_retry raised;     *)
(* body is how far the response parses; content is the decoded object.     *)
(***************************************************************************)
Reply(transport, status, body, action_plan, confidence) ==
    [transport |-> transport, status |-> status, body |-> body,
     action_plan |-> action_plan, confidence |-> confidence]

\* complete_chat: the decoded object, or the LLMError it raises.
complete_chat(api_key, reply) ==
    IF api_key = "" THEN [raised |-> TRUE, error |-> <<"API Key not found">>, data |-> reply]
    ELSE IF reply.transport # "ok"
    THEN [raised |-> TRUE, error |-> <<"Failed to call LLM: ", reply.transport>>, data |-> reply]
    ELSE IF reply.status >= 400
    THEN [raised |-> TRUE, error |-> <<"Failed to call LLM: ", "status">>, data |-> reply]
    ELSE IF reply.body \in {"not_json", "no_choices", "content_not_json", "content_other"}
    THEN [raised |-> TRUE, error |-> <<"Failed to call LLM: ", reply.body>>, data |-> reply]
    ELSE [raised |-> FALSE, error |-> NoError, data |-> reply]

\* A Thought that does not keep the step it was produced in.
ThoughtUnnumbered(step, reasoning, action_plan, confidence, obs) ==
    [step |-> 0, reasoning |-> reasoning, action_plan |-> action_plan,
     confidence |-> confidence, observation |-> obs]

Thought(step, reasoning, action_plan, confidence, obs) ==
    [step |-> step, reasoning |-> reasoning, action_plan |-> action_plan,
     confidence |-> confidence, observation |-> obs]

\* float() of the confidence the oracle sent, in hundredths.
FloatRaises(text) == text \notin {"0.8", "0.95"}
Float(text) == IF text = "0.95" THEN 95 ELSE IF text = "0.8" THEN 80 ELSE 0

\* A fallback with nothing to do.
FallbackPlanEmpty == <<>>

FallbackPlan == << Action("get_ui", NoParams, FALSE, FALSE) >>

\* reason, lines 99-129: the Thought built from the oracle's answer, or the
\* fallback Thought when anything in the try block raises (complete_chat,
\* thought_data.get on a decoded list, float() of the confidence).
reason(api_key, reply, step, obs) ==
    LET answer == complete_chat(api_key, reply)
    IN  IF answer.raised \/ answer.data.body = "content_list" \/ FloatRaises(answer.data.confidence)
        THEN Thought(step, "fallback", FallbackPlan, 50, obs)
        ELSE Thought(step, "oracle", answer.data.action_plan, Float(answer.data.confidence), obs)

\* complete_text (llm_client.py, lines 101-126): the missing key raises before
\* the try block; every failure of the exchange is caught at line 124 and
\* comes back as the text "Error: ...".
complete_text(api_key, reply) ==
    IF api_key = "" THEN [raised |-> TRUE, text |-> <<"API Key not found">>]
    ELSE IF reply.transport # "ok"
    THEN [raised |-> FALSE, text |-> <<"Error: ", reply.transport>>]
    ELSE IF reply.status >= 400
    THEN [raised |-> FALSE, text |-> <<"Error: ", "LLM request failed: ", "status">>]
    ELSE IF reply.body \in {"not_json", "no_choices"}
    THEN [raised |-> FALSE, text |-> <<"Error: ", reply.body>>]
    ELSE [raised |-> FALSE, text |-> <<"narrative">>]

\* The text of line 160.
StatusTemplate(status) == <<"Mision finalizada con estado: ", status, ".">>

\* generate_summary (reasoning.py, lines 155-160): what complete_text returns,
\* or the template when it raises.
generate_summary(api_key, reply, status) ==
    LET answer == complete_text(api_key, reply)
    IN  IF answer.raised THEN StatusTemplate(status) ELSE answer.text

(***************************************************************************)
(* State                                                                   *)
(***************************************************************************)
VARIABLES
    mission,                \* AndroMancerAgent.mission
    state_file,             \* the record in cfg.STATE_FILE, <<>> when there is no file
    stop_event,             \* AndroMancerAgent._stop_event
    parallel_actions,       \* cfg.PARALLEL_ACTIONS
    capabilities,           \* CapabilityRegistry._capabilities: name -> risk_level
    safety_check_callback,  \* CapabilityRegistry.safety_check_callback
    thought_history,        \* ReActEngine.thought_history
    working_memory,         \* ReActEngine.working_memory["last_action_error"], <<>> when absent
    pc,                     \* where the task running _run_loop is
    retry_count,            \* local of _run_loop
    observation,            \* local of _run_loop: summary of the last observation
    sleep_for,              \* seconds of the asyncio.sleep the loop is suspended in
    plan,                   \* the actions given to _execute_plan
    plan_source,            \* "skill" or "oracle": which branch of the loop called _execute_plan
    results,                \* local of _execute_plan
    todo,                   \* positions of the actions the sequential loops still have to run
    tasks,                  \* the coroutines given to asyncio.gather
    calls,                  \* validations and registry calls made for the plan, in order
    skill_evals,            \* what the registered skills return in one check_skills call
    skill_ret,              \* what that check_skills call returned
    oracle_failed,          \* the last oracle call (of reason or generate_summary) failed
    resume,                 \* the resume argument of the last start_mission call
    archived,               \* the records renamed to completed_<id>.json
    memories,               \* MemoryStore.memories
    retrieval,              \* the last retrieve call: how many were made, its arguments,
                            \* the strategy and similarities it used, its result
    corpus_file,            \* the list in cfg.VECTOR_DB_PATH, <<>> when there is no file
    event_history,          \* EventBus._history of core/agent.py, oldest event first
    handlers,               \* EventBus._handlers, in subscription order
    dispatch,               \* the emit call in progress and what the last one did
    request,                \* the _request_with_retry call of core/llm_client.py
    emitters,               \* the emit calls suspended in a handler, by task
    received,               \* per handler, the events it was called with, in call order
    other                   \* the locals of a second _run_loop task, <<>> when there is none

vars == << mission, state_file, stop_event, parallel_actions, capabilities,
           safety_check_callback, thought_history, working_memory, pc, retry_count,
           observation, sleep_for, plan, plan_source, results, todo, tasks, calls,
           skill_evals, skill_ret, oracle_failed, resume, archived, memories, retrieval, corpus_file,
           event_history, handlers, dispatch, request, emitters, received, other >>

config_vars == << parallel_actions, capabilities, safety_check_callback >>
plan_vars == << plan, plan_source, results, todo, tasks, calls >>
skill_vars == << skill_evals, skill_ret >>
store_vars == << archived, memories, retrieval, corpus_file >>
bus_vars == << handlers, dispatch >>
task_vars == << request, emitters, received, other >>

Mission(id, goal, status, max_steps, current_step) ==
    [id |-> id, goal |-> goal, status |-> status, max_steps |-> max_steps,
     current_step |-> current_step]

NoRetrieval ==
    [calls |-> 0, top_k |-> 0, query |-> NoneV, strategy |-> NoneV, sims |-> <<>>,
     result |-> <<>>]

NoMission == Mission(NoneV, NoneV, NoneV, 0, 0)

\* No emit call is in progress and none was made: how many emit calls were
\* made, the event of the call in progress (<<>> when there is none), the
\* position of the handler to invoke next, the handlers the last call
\* invoked, and whether an exception left the call.
NoDispatch == [emits |-> 0, event |-> <<>>, next |-> 0, delivered |-> <<>>, raised |-> FALSE]

\* No _request_with_retry call was made: the api key of the client, where the
\* call stands, the value of attempt, the outcome of every post so far, the
\* sleeps taken (tenths of a second), the body drawn for the final response
\* and what complete_chat gave its caller.
NoRequest ==
    [api_key |-> "", state |-> "idle", attempt |-> 0, posts |-> <<>>, slept |-> <<>>,
     answer |-> <<>>]

\* Outside their own specifications no request is made, no emit call is
\* suspended and there is a single run loop.
InitTasks ==
    /\ request = NoRequest
    /\ emitters = <<>>
    /\ received = <<>>
    /\ other = <<>>

\* MissionStatus: the members, written by their names.
MissionStatus == {"PENDING", "RUNNING", "PAUSED", "COMPLETED", "FAILED"}

\* _save_state: the JSON object written to the state file, <<>> being no file.
\* asdict(mission) with the status replaced by the member's name.
_save_state(m) ==
    << [id |-> m.id, goal |-> m.goal, status |-> <<"name", m.status>>,
        max_steps |-> m.max_steps, current_step |-> m.current_step] >>

\* A load that starts the mission over.
_load_state_from_zero(file) ==
    Mission(file[1].id, file[1].goal,
            CHOOSE member \in MissionStatus : <<"name", member>> = file[1].status,
            file[1].max_steps, 0)

\* _load_state: Mission(**data) with MissionStatus[data['status']].
_load_state(file) ==
    Mission(file[1].id, file[1].goal,
            CHOOSE member \in MissionStatus : <<"name", member>> = file[1].status,
            file[1].max_steps, file[1].current_step)

\* The first eight hexadecimal digits of md5(goal + time).
MissionIds == {"a3f09c1e", "77c1d2b4"}

Goals == {"open settings"}
Screens == {"Screen with no visible text"}

(***************************************************************************)
(* Inputs                                                                  *)
(***************************************************************************)
ApiKeys == {"", "gsk"}

FailedReplies ==
    { Reply(t, 200, "object", <<>>, "0.8") : t \in {"timeout", "request_error"} }
      \cup { Reply("ok", st, "object", <<>>, "0.8") : st \in {400, 429, 500} }
      \cup { Reply("ok", 200, b, <<>>, "0.8") :
                b \in {"not_json", "no_choices", "content_not_json", "content_other", "content_list"} }
      \cup { Reply("ok", 200, "object", <<>>, "high") }

\* What the exchange of generate_summary ends with.
FailedTextReplies ==
    { Reply("timeout", 200, "object", <<>>, "0.8"),
      Reply("ok", 500, "object", <<>>, "0.8"),
      Reply("ok", 200, "no_choices", <<>>, "0.8") }

TextReplies == FailedTextReplies \cup { Reply("ok", 200, "object", <<>>, "0.8") }

\* The plans the oracle and the skills propose in the loop.
LoopActions ==
    { Action("tap", Params("5", "0", NoneV, NoneV), FALSE, FALSE),
      Action("back", NoParams, FALSE, TRUE),
      Action(NoneV, NoParams, FALSE, FALSE) }

OraclePlans == SeqsUpTo(LoopActions, LoopPlan)

OracleReplies ==
    FailedReplies \cup { Reply("ok", 200, "object", p, "0.8") : p \in OraclePlans }

SkillPlans == { <<>>, << Action("back", NoParams, FALSE, FALSE) >> }

LoopSkillResults ==
    { SkillResult("AppOpener", <<>>, 0, FALSE, FALSE, NoneV),
      SkillResult("AppOpener", <<>>, 50, TRUE, FALSE, "let the oracle decide"),
      SkillRaises("AppOpener") }
      \cup { SkillResult("PatternDetector", p, 91, TRUE, TRUE, "go back") : p \in SkillPlans }

LoopSkillEvals == { <<r>> : r \in LoopSkillResults }

(***************************************************************************)
(* The run loop: AndroMancerAgent.start_mission, _run_loop, stop           *)
(***************************************************************************)
Positions(p) == [i \in 1..Len(p) |-> i]
Independent(p) == SelectSeq(Positions(p), LAMBDA i : ~p[i].depends_on)
Dependent(p) == SelectSeq(Positions(p), LAMBDA i : p[i].depends_on)

\* The backoff of line 245, in tenths of a second.
RECURSIVE Pow2(_)
Pow2(n) == IF n = 0 THEN 1 ELSE 2 * Pow2(n - 1)
\* A backoff that grows linearly.
BackoffLinear(retries) == 10 * 2 * retries

Backoff(retries) == 10 * Pow2(retries)
PaceDelay == 5

\* The budget test written with > in place of >=.
BudgetUsedLate(m) == m.current_step > m.max_steps

\* Line 155: the step budget is used up.
BudgetUsed(m) == m.current_step >= m.max_steps

\* Lines 235-237: the step is counted.
Advance(m) == [m EXCEPT !.current_step = m.current_step + 1]

\* event_bus.emit of each event in turn, by an orchestrator whose only
\* subscriber is _log_events (line 107), which logs and returns.
Emit(events) == event_history' = deque_append(event_history, events)

\* The events of one type in the history, oldest first.
EventsOfType(type) == SelectSeq(event_history, LAMBDA e : e.type = type)

\* A start_mission that clears the stop flag.
start_mission_rearmed ==
    /\ \E id \in MissionIds, goal \in Goals, again \in BOOLEAN :
          /\ resume' = again
          /\ mission' = IF again /\ state_file # <<>>
                        THEN _load_state(state_file)
                        ELSE Mission(id, goal, "RUNNING", MaxSteps, 0)
    /\ retry_count' = 0
    /\ pc' = "loop_top"
    /\ stop_event' = FALSE
    /\ UNCHANGED << state_file, config_vars, store_vars, bus_vars, request, emitters, received, event_history,
                    thought_history, working_memory, observation, sleep_for, plan_vars,
                    skill_vars, oracle_failed >>

\* start_mission, lines 133-148: a new Mission, or the one _load_state reads,
\* and a task that runs _run_loop from its first line.
start_mission ==
    /\ \E id \in MissionIds, goal \in Goals, again \in BOOLEAN :
          /\ resume' = again
          /\ mission' = IF again /\ state_file # <<>>
                        THEN _load_state(state_file)
                        ELSE Mission(id, goal, "RUNNING", MaxSteps, 0)
    /\ retry_count' = 0
    /\ pc' = "loop_top"
    /\ UNCHANGED << state_file, stop_event, config_vars, store_vars, bus_vars, request, emitters, received, event_history,
                    thought_history, working_memory, observation, sleep_for, plan_vars,
                    skill_vars, oracle_failed >>

\* start_mission on an orchestrator that has run no mission yet.
StartMission ==
    /\ pc = "idle"
    /\ start_mission
    /\ UNCHANGED other

\* start_mission once more, on an orchestrator whose stop() was called and
\* whose mission has ended.
StartAgain ==
    /\ pc = "done"
    /\ stop_event
    /\ Len(EventsOfType("COMPLETION")) < MaxMissions
    /\ start_mission
    /\ UNCHANGED other

\* A loop condition that does not read the stop flag.
LoopContinuesDeaf(stop, m) == m.status = "RUNNING"

\* Line 154: the condition of the while loop.
LoopContinues(stop, m) == ~stop /\ m.status = "RUNNING"

\* Lines 154-162: the loop condition, the step budget, and the call of get_ui.
LoopCheck ==
    /\ pc = "loop_top"
    /\ IF ~LoopContinues(stop_event, mission)
       THEN /\ pc' = "complete"
            /\ UNCHANGED mission
       ELSE IF BudgetUsed(mission)
       THEN /\ mission' = [mission EXCEPT !.status = "COMPLETED"]
            /\ pc' = "complete"
       ELSE /\ pc' = "observe"
            /\ UNCHANGED mission
    /\ UNCHANGED << state_file, stop_event, config_vars, store_vars, bus_vars, task_vars, event_history, resume, thought_history, working_memory,
                    retry_count, observation, sleep_for, plan_vars, skill_vars, oracle_failed >>

\* Lines 240-246: the handler of RecoverableError.
Recover ==
    /\ retry_count' = retry_count + 1
    /\ IF retry_count + 1 > max_retries
       THEN /\ mission' = [mission EXCEPT !.status = "FAILED"]
            /\ pc' = "complete"
            /\ UNCHANGED sleep_for
       ELSE /\ pc' = "backoff"
            /\ sleep_for' = Backoff(retry_count + 1)
            /\ UNCHANGED mission

\* Lines 247-250: the handler of any other exception.
Unclassified ==
    /\ mission' = [mission EXCEPT !.status = "FAILED"]
    /\ pc' = "complete"

\* The locals of _execute_plan are gone once it has returned.
PlanGone ==
    /\ plan' = <<>>
    /\ plan_source' = NoneV
    /\ results' = <<>>
    /\ todo' = <<>>
    /\ tasks' = <<>>
    /\ calls' = <<>>

\* Lines 162-172: get_ui returns; a failed result raises RecoverableError.
Observe ==
    /\ pc = "observe"
    /\ \E outcome \in CapOutcomes, screen \in Screens :
          LET ui_result == Execute(capabilities, safety_check_callback, "get_ui", outcome, 0)
          IN  IF ~ui_result.success
              THEN /\ Recover
                   /\ UNCHANGED << observation, event_history >>
              ELSE /\ observation' = screen
                   /\ Emit(<< ObservationEvent(mission.current_step, screen) >>)
                   /\ pc' = "skills"
                   /\ UNCHANGED << mission, retry_count, sleep_for >>
    /\ UNCHANGED << state_file, stop_event, config_vars, store_vars, bus_vars, task_vars, resume, thought_history, working_memory,
                    plan_vars, skill_vars, oracle_failed >>

\* Line 245-246: the backoff sleep ends and the loop goes round.
BackoffDone ==
    /\ pc = "backoff"
    /\ pc' = "loop_top"
    /\ sleep_for' = 0
    /\ UNCHANGED << mission, state_file, stop_event, config_vars, store_vars, bus_vars, task_vars, event_history, resume, thought_history,
                    working_memory, retry_count, observation, plan_vars, skill_vars, oracle_failed >>

\* The entry of _execute_plan (lines 271-273 and 292-296).
EnterPlan(p, source) ==
    /\ plan' = p
    /\ plan_source' = source
    /\ results' = <<>>
    /\ tasks' = <<>>
    /\ calls' = <<>>
    /\ IF parallel_actions
       THEN /\ todo' = <<>>
            /\ pc' = "exec_par"
       ELSE /\ todo' = Positions(p)
            /\ pc' = IF p = <<>> THEN "exec_return" ELSE "exec_seq"

\* An override test that also asks for actions.
OverridesWithActions(ret) == ret.override # <<>> /\ ret.override[1].actions # <<>>

\* Line 181: "if skill_override"; a SkillResult is truthy whatever it holds.
Overrides(ret) == ret.override # <<>>

\* Lines 175-188: check_skills, and the override branch calling _execute_plan.
SkillCheckOver(evaluations) ==
    /\ pc = "skills"
    /\ \E evals \in evaluations :
          LET ret == check_skills(evals)
          IN  /\ skill_ret' = ret
              /\ IF Overrides(ret)
                 THEN /\ Emit(<< SkillStartEvent(ret.override[1].actions) >>)
                      /\ EnterPlan(ret.override[1].actions, "skill")
                 ELSE /\ pc' = "reason"
                      /\ UNCHANGED << plan_vars, event_history >>
    /\ UNCHANGED << mission, state_file, stop_event, config_vars, store_vars, bus_vars, task_vars, resume, thought_history,
                    working_memory, retry_count, observation, sleep_for, skill_evals,
                    oracle_failed >>

\* The skill check with the evaluations the loop's skills may give.
SkillCheck == SkillCheckOver(LoopSkillEvals)

\* Lines 210-224: reason(), the empty plan, and the call of _execute_plan.
Reason ==
    /\ pc = "reason"
    /\ \E api_key \in ApiKeys, reply \in OracleReplies :
          LET thought == reason(api_key, reply, mission.current_step, observation)
          IN  /\ thought_history' = Append(thought_history, thought)
              /\ oracle_failed' = (api_key = "" \/ reply \in FailedReplies)
              /\ IF thought.action_plan = <<>>
                 THEN /\ mission' = [mission EXCEPT !.status = "COMPLETED"]
                      /\ pc' = "complete"
                      /\ UNCHANGED plan_vars
                 ELSE /\ EnterPlan(thought.action_plan, "oracle")
                      /\ UNCHANGED mission
    /\ UNCHANGED << state_file, stop_event, config_vars, store_vars, bus_vars, task_vars, event_history, resume, working_memory, retry_count,
                    observation, sleep_for, skill_vars >>

(***************************************************************************)
(* AndroMancerAgent._execute_plan                                          *)
(***************************************************************************)
Task(i, state, result) == [idx |-> i, state |-> state, result |-> result]

\* A loop that stops at any failed result.
BreaksOnAnyFailure(action, result) == ~result.success

\* Line 288: the sequential loop stops after this result.
Breaks(action, result) == ~result.success /\ action.critical

\* One pass of a sequential for loop (lines 273-289 and 317-329) over the
\* action at position i: validation, then the registry, then the result.
\* An action without a capability key passes validation and raises KeyError.
RunOne(i, outcome, may_break, next_pc) ==
    LET action == plan[i]
        error == ValidateAction(action)
        result == IF error # NoError
                  THEN ExecutionResult(FALSE, error, i)
                  ELSE Execute(capabilities, safety_check_callback,
                               action.capability, outcome, i)
    IN  IF error = NoError /\ ~HasCapabilityKey(action)
        THEN /\ Unclassified
             /\ calls' = Append(calls, <<"validate", i>>)
             /\ UNCHANGED << results, todo, event_history >>
        ELSE /\ results' = Append(results, result)
             /\ Emit((IF error # NoError THEN <<>>
                      ELSE ExecuteEvents(capabilities, safety_check_callback, action))
                     \o << ActionEvent(action, result) >>)
             /\ calls' = calls \o << <<"validate", i>> >>
                           \o (IF error # NoError THEN <<>>
                               ELSE ExecuteCalls(capabilities, safety_check_callback,
                                                 action.capability, i)
                                    \o ActionEnded(capabilities, safety_check_callback,
                                                   action.capability, outcome, i))
             /\ todo' = Tail(todo)
             /\ pc' = IF (may_break /\ Breaks(action, result)) \/ Tail(todo) = <<>>
                      THEN "exec_return" ELSE next_pc
             /\ UNCHANGED mission

\* Lines 273-289: parallel execution disabled.
SeqStep ==
    /\ pc = "exec_seq"
    /\ todo # <<>>
    /\ \E outcome \in CapOutcomes : RunOne(Head(todo), outcome, TRUE, "exec_seq")
    /\ UNCHANGED << state_file, stop_event, config_vars, store_vars, bus_vars, task_vars, resume, thought_history, working_memory,
                    retry_count, observation, sleep_for, plan, plan_source, tasks, skill_vars, oracle_failed >>

\* A batch whose failure cancels the dependent actions.
AfterBatchUnlessFailed ==
    IF \E k \in 1..Len(tasks) : ~tasks[k].result.success
    THEN /\ todo' = <<>>
         /\ pc' = "exec_return"
    ELSE /\ todo' = Dependent(plan)
         /\ pc' = IF Dependent(plan) = <<>> THEN "exec_return" ELSE "exec_dep"

\* What _execute_plan goes on with after the batch: the dependent actions.
AfterBatch ==
    /\ todo' = Dependent(plan)
    /\ pc' = IF Dependent(plan) = <<>> THEN "exec_return" ELSE "exec_dep"

\* Lines 293-308: the partition, and one coroutine per independent action.
BatchStart ==
    /\ pc = "exec_par"
    /\ LET independent == Independent(plan)
       IN  IF \E k \in 1..Len(independent) :
                   /\ ~HasCapabilityKey(plan[independent[k]])
                   /\ ValidateAction(plan[independent[k]]) = NoError
           THEN /\ Unclassified
                /\ UNCHANGED << tasks, todo, calls >>
           ELSE /\ tasks' = [k \in 1..Len(independent) |->
                               Task(independent[k], "pending",
                                    ExecutionResult(FALSE, NoError, independent[k]))]
                /\ calls' = calls \o [k \in 1..Len(independent) |-> <<"validate", independent[k]>>]
                /\ IF independent = <<>>
                   THEN AfterBatch
                   ELSE /\ pc' = "exec_gather"
                        /\ UNCHANGED todo
                /\ UNCHANGED mission
    /\ UNCHANGED << state_file, stop_event, config_vars, store_vars, bus_vars, task_vars, event_history, resume, thought_history, working_memory,
                    retry_count, observation, sleep_for, plan, plan_source, results, skill_vars, oracle_failed >>

\* asyncio.gather starts the coroutines in order; each runs up to its first
\* suspension: dummy_fail and a refused execute finish at once, the others
\* are suspended in the capability's action.
TaskStart(k) ==
    /\ pc = "exec_gather"
    /\ tasks[k].state = "pending"
    /\ \A j \in 1..(k - 1) : tasks[j].state # "pending"
    /\ LET i == tasks[k].idx
           action == plan[i]
           error == ValidateAction(action)
           gate == ExecuteGate(capabilities, safety_check_callback, action.capability)
       IN  IF error # NoError
           THEN /\ tasks' = [tasks EXCEPT ![k] = Task(i, "done", ExecutionResult(FALSE, error, i))]
                /\ UNCHANGED << calls, event_history >>
           ELSE /\ calls' = calls \o ExecuteCalls(capabilities, safety_check_callback,
                                                  action.capability, i)
                /\ Emit(ExecuteEvents(capabilities, safety_check_callback, action))
                /\ tasks' = [tasks EXCEPT ![k] =
                               IF gate = "invoke"
                               THEN Task(i, "running", tasks[k].result)
                               ELSE Task(i, "done",
                                         Execute(capabilities, safety_check_callback,
                                                 action.capability, CHOOSE o \in CapOutcomes : TRUE, i))]
    /\ UNCHANGED << mission, state_file, stop_event, config_vars, store_vars, bus_vars, task_vars, resume, thought_history,
                    working_memory, pc, retry_count, observation, sleep_for, plan,
                    plan_source, results, todo, skill_vars, oracle_failed >>

\* The action of a running coroutine returns or raises.
TaskFinish(k) ==
    /\ pc = "exec_gather"
    /\ tasks[k].state = "running"
    /\ \E outcome \in CapOutcomes :
          /\ tasks' = [tasks EXCEPT ![k] = Task(tasks[k].idx, "done",
                                                ExecuteAction(outcome, tasks[k].idx))]
          /\ calls' = Append(calls, <<outcome.kind, tasks[k].idx>>)
    /\ UNCHANGED << mission, state_file, stop_event, config_vars, store_vars, bus_vars, task_vars, event_history, resume, thought_history,
                    working_memory, pc, retry_count, observation, sleep_for, plan,
                    plan_source, results, todo, skill_vars, oracle_failed >>

\* A gather that gives up the results after the first failed one.
GatherResultsFailFast(ts) ==
    LET failed == {k \in 1..Len(ts) : ~ts[k].result.success}
    IN  IF failed = {} THEN [k \in 1..Len(ts) |-> ts[k].result]
        ELSE [k \in 1..(CHOOSE f \in failed : \A g \in failed : f <= g) |-> ts[k].result]

\* Line 308: asyncio.gather(*tasks, return_exceptions=False) hands back one
\* result per coroutine, in the order of the coroutines.
GatherResults(ts) == [k \in 1..Len(ts) |-> ts[k].result]

\* Lines 308-315: gather returns the results in the order of the coroutines.
Gather ==
    /\ pc = "exec_gather"
    /\ \A k \in 1..Len(tasks) : tasks[k].state = "done"
    /\ results' = results \o GatherResults(tasks)
    /\ Emit([k \in 1..Len(GatherResults(tasks)) |->
                ActionEvent(plan[Independent(plan)[k]], GatherResults(tasks)[k])])
    /\ AfterBatch
    /\ UNCHANGED << mission, state_file, stop_event, config_vars, store_vars, bus_vars, task_vars, resume, thought_history,
                    working_memory, retry_count, observation, sleep_for, plan,
                    plan_source, tasks, calls, skill_vars, oracle_failed >>

\* Lines 317-329: the dependent actions, one at a time.
DepStep ==
    /\ pc = "exec_dep"
    /\ todo # <<>>
    /\ \E outcome \in CapOutcomes : RunOne(Head(todo), outcome, FALSE, "exec_dep")
    /\ UNCHANGED << state_file, stop_event, config_vars, store_vars, bus_vars, task_vars, resume, thought_history, working_memory,
                    retry_count, observation, sleep_for, plan, plan_source, tasks, skill_vars, oracle_failed >>

(***************************************************************************)
(* The end of a step, mission completion, stop                             *)
(***************************************************************************)
Min(a, b) == IF a <= b THEN a ELSE b

\* A reflection loop that never calls _handle_failure.
ReflectFromSilent(p, rs, i, slot) ==
    IF \E k \in i..Min(Len(p), Len(rs)) : rs[k].success THEN <<>> ELSE slot

\* Lines 227-233: _handle_failure records a failed result, a successful one
\* clears the slot; plan and results are paired by position.
RECURSIVE ReflectFrom(_, _, _, _)
ReflectFrom(p, rs, i, slot) ==
    IF i > Min(Len(p), Len(rs)) THEN slot
    ELSE ReflectFrom(p, rs, i + 1,
                     IF rs[i].success THEN <<>> ELSE <<p[i].capability, rs[i].error>>)

\* Lines 190-206 and 224-238: _execute_plan has returned; reflection, the
\* pseudo-Thought of an override, and the step is counted and persisted.
FinishStep ==
    /\ pc = "exec_return"
    /\ IF plan_source = "skill"
       THEN /\ Emit(<< SkillEndEvent(results) >>)
            /\ thought_history' = Append(thought_history,
                    Thought(mission.current_step, "skill", plan,
                            skill_ret.override[1].confidence, observation))
            /\ UNCHANGED working_memory
       ELSE /\ working_memory' = ReflectFrom(plan, results, 1, working_memory)
            /\ UNCHANGED << thought_history, event_history >>
    /\ retry_count' = 0
    /\ mission' = Advance(mission)
    /\ state_file' = _save_state(Advance(mission))
    /\ sleep_for' = PaceDelay
    /\ pc' = "pace"
    /\ PlanGone
    /\ oracle_failed' = FALSE
    /\ UNCHANGED << stop_event, config_vars, store_vars, bus_vars, task_vars, resume, observation, skill_vars >>

\* Line 238: the pacing sleep ends.
PaceDone ==
    /\ pc = "pace"
    /\ pc' = "loop_top"
    /\ sleep_for' = 0
    /\ UNCHANGED << mission, state_file, stop_event, config_vars, store_vars, bus_vars, task_vars, event_history, resume, thought_history,
                    working_memory, retry_count, observation, plan_vars, skill_vars, oracle_failed >>

\* A completion that overwrites every status.
FinalStatusAlwaysCompleted(m) == [m EXCEPT !.status = "COMPLETED"]

\* A completion that leaves the status as the loop left it.
FinalStatusUnchanged(m) == m

\* Lines 346-347: every status but FAILED becomes COMPLETED.
FinalStatus(m) ==
    IF m.status # "FAILED" THEN [m EXCEPT !.status = "COMPLETED"] ELSE m

\* _complete_mission, lines 345-366.
CompleteMission ==
    /\ pc = "complete"
    /\ mission' = FinalStatus(mission)
    /\ \E api_key \in ApiKeys, reply \in TextReplies :
          /\ oracle_failed' = (api_key = "" \/ reply \in FailedTextReplies)
          /\ Emit(<< ReportEvent(generate_summary(api_key, reply, FinalStatus(mission).status)),
                     CompletionEvent(FinalStatus(mission)) >>)
    /\ pc' = "done"
    /\ UNCHANGED << state_file, stop_event, config_vars, store_vars, bus_vars, task_vars, resume, thought_history,
                    working_memory, retry_count, observation, sleep_for, plan_vars, skill_vars >>

\* stop(): the flag is read by the loop condition only.
Stop ==
    /\ pc \notin {"idle", "done", "harness"}
    /\ ~stop_event
    /\ stop_event' = TRUE
    /\ UNCHANGED << mission, state_file, config_vars, store_vars, bus_vars, task_vars, event_history, resume, thought_history, working_memory, pc,
                    retry_count, observation, sleep_for, plan_vars, skill_vars, oracle_failed >>

(***************************************************************************)
(* The orchestrator as AndroMancerAgent.__init__ builds it                 *)
(***************************************************************************)
PersistedMissions ==
    { Mission(id, g, "RUNNING", MaxSteps, n) : id \in MissionIds, g \in Goals, n \in 1..MaxSteps }

InitWith(files, histories) ==
    /\ mission = NoMission
    /\ state_file \in files
    /\ stop_event = FALSE
    /\ parallel_actions \in BOOLEAN
    /\ capabilities = DefaultCapabilities
    /\ safety_check_callback = "_check_safety"
    /\ thought_history \in histories
    /\ working_memory = <<>>
    /\ pc = "idle"
    /\ retry_count = 0
    /\ observation = NoneV
    /\ sleep_for = 0
    /\ plan = <<>>
    /\ plan_source = NoneV
    /\ results = <<>>
    /\ todo = <<>>
    /\ tasks = <<>>
    /\ calls = <<>>
    /\ skill_evals = <<>>
    /\ skill_ret = NoSkillReturn
    /\ oracle_failed = FALSE
    /\ resume = FALSE
    /\ archived = {}
    /\ memories = <<>>
    /\ retrieval = NoRetrieval
    /\ corpus_file = <<>>
    /\ event_history = <<>>
    /\ handlers = << "_log_events" >>
    /\ dispatch = NoDispatch
    /\ InitTasks

\* An orchestrator that has run no step yet.
InitFrom(files) == InitWith(files, { <<>> })

\* The state file holds what _save_state wrote at line 237, if anything.
Init == InitFrom({ <<>> } \cup { _save_state(m) : m \in PersistedMissions })

Next ==
    \/ StartMission
    \/ LoopCheck
    \/ Observe
    \/ BackoffDone
    \/ SkillCheck
    \/ Reason
    \/ SeqStep
    \/ BatchStart
    \/ \E k \in 1..MaxPlan : k <= Len(tasks) /\ TaskStart(k)
    \/ \E k \in 1..MaxPlan : k <= Len(tasks) /\ TaskFinish(k)
    \/ Gather
    \/ DepStep
    \/ FinishStep
    \/ PaceDone
    \/ CompleteMission
    \/ Stop

Spec == Init /\ [][Next]_vars

\* The steps the task running _run_loop takes by itself.  Every await of the
\* loop ends: the device commands and the oracle call have timeouts and the
\* sleeps are finite, so the event loop always runs the task again.
LoopStep ==
    \/ LoopCheck
    \/ Observe
    \/ BackoffDone
    \/ SkillCheck
    \/ Reason
    \/ SeqStep
    \/ BatchStart
    \/ \E k \in 1..MaxPlan : k <= Len(tasks) /\ TaskStart(k)
    \/ \E k \in 1..MaxPlan : k <= Len(tasks) /\ TaskFinish(k)
    \/ Gather
    \/ DepStep
    \/ FinishStep
    \/ PaceDone
    \/ CompleteMission

SpecFair == Init /\ [][Next]_vars /\ WF_vars(LoopStep)

\* The orchestrator started over a state file that holds a record of any
\* status, such as one another program or an operator left there.
StoredMissions ==
    { Mission(id, g, st, MaxSteps, n) :
        id \in MissionIds, g \in Goals, st \in MissionStatus, n \in 1..MaxSteps }

InitStored == InitFrom({ <<>> } \cup { _save_state(m) : m \in StoredMissions })

SpecExit == InitStored /\ [][Next]_vars

\* The orchestrator used for further missions after stop().
NextStopped == Next \/ StartAgain

SpecStopped == Init /\ [][NextStopped]_vars

(***************************************************************************)
(* start_mission while a mission is running, lines 133-148 as called from  *)
(* cli.py lines 62-72: neither tests whether a run loop exists, so the     *)
(* call replaces self.mission and creates one more _run_loop task.  The    *)
(* two tasks share the orchestrator (mission, state file, histories, stop  *)
(* event); each has its own locals and its own place in the loop.  One of  *)
(* them runs at a time, and the event loop passes control at an await that *)
(* suspends.  The variables pc ... oracle_failed are the task that runs,   *)
(* other holds the one that waits.                                         *)
(***************************************************************************)
Locals ==
    [pc |-> pc, retry_count |-> retry_count, observation |-> observation,
     sleep_for |-> sleep_for, plan |-> plan, plan_source |-> plan_source,
     results |-> results, todo |-> todo, tasks |-> tasks,
     skill_evals |-> skill_evals, skill_ret |-> skill_ret,
     oracle_failed |-> oracle_failed]

\* Where the harness lets the event loop pass control: a run loop suspended
\* in get_ui (line 162) or in the sleep that paces the loop (line 238).
SuspensionPoints == {"observe", "pace"}

\* start_mission(goal, resume=True) on an orchestrator that has run no
\* mission yet.
ResumeFirst ==
    /\ pc = "idle"
    /\ start_mission
    /\ resume'
    /\ UNCHANGED other

\* The same call once more, made while the first loop is suspended.
StartSecond ==
    /\ pc \in SuspensionPoints
    /\ mission.status = "RUNNING"
    /\ other = <<>>
    /\ other' = << Locals >>
    /\ start_mission
    /\ resume'

\* The running task suspends or ends, and the waiting one is resumed.
Switch ==
    /\ pc \in SuspensionPoints \cup {"done"}
    /\ other # <<>>
    /\ other[1].pc # "done"
    /\ other' = << Locals >>
    /\ pc' = other[1].pc
    /\ retry_count' = other[1].retry_count
    /\ observation' = other[1].observation
    /\ sleep_for' = other[1].sleep_for
    /\ plan' = other[1].plan
    /\ plan_source' = other[1].plan_source
    /\ results' = other[1].results
    /\ todo' = other[1].todo
    /\ tasks' = other[1].tasks
    /\ skill_evals' = other[1].skill_evals
    /\ skill_ret' = other[1].skill_ret
    /\ oracle_failed' = other[1].oracle_failed
    /\ UNCHANGED << mission, state_file, stop_event, config_vars, store_vars, bus_vars,
                    request, emitters, received, event_history, resume, thought_history,
                    working_memory, calls >>

\* The state file of a mission that was interrupted with one step left.
InitTwice ==
    InitFrom({ _save_state(m) : m \in { p \in PersistedMissions :
                                          p.current_step = p.max_steps - 1 } })

NextTwice ==
    \/ ResumeFirst
    \/ StartSecond
    \/ Switch
    \/ LoopCheck
    \/ Observe
    \/ BackoffDone
    \/ SkillCheck
    \/ Reason
    \/ SeqStep
    \/ BatchStart
    \/ \E k \in 1..MaxPlan : k <= Len(tasks) /\ TaskStart(k)
    \/ \E k \in 1..MaxPlan : k <= Len(tasks) /\ TaskFinish(k)
    \/ Gather
    \/ DepStep
    \/ FinishStep
    \/ PaceDone
    \/ CompleteMission
    \/ Stop

SpecTwice == InitTwice /\ [][NextTwice]_vars

(***************************************************************************)
(* The default skills, registered by _register_default_skills (agent.py    *)
(* lines 119-126) in this order: AppOpener, SettingsEscape, SmartSearch,   *)
(* SmartScroll, ExplorationHelper, PatternDetector, HomeRescue.            *)
(* PatternSkill.evaluate reads only the history and is computed; what the  *)
(* others return depends on the goal, the packages on the device and the   *)
(* reflections, and is drawn from the results their code can return.       *)
(***************************************************************************)
Declines(name) == SkillResult(name, <<>>, 0, FALSE, FALSE, NoneV)

AppParams(app_name) ==
    [x |-> NoneV, y |-> NoneV, element |-> NoneV, text |-> NoneV, app_name |-> app_name]

BackPlan == << Action("back", NoParams, FALSE, FALSE) >>
HomePlan == << Action("open_app", AppParams("HOME"), FALSE, FALSE) >>

RepeatedActions(name) ==
    SkillResult(name, BackPlan, 91, TRUE, TRUE,
                "Detected repeated actions. Trying to go BACK to break the loop.")

Stagnation(name) ==
    SkillResult(name, HomePlan, 92, TRUE, TRUE, "UI seems stuck. Going HOME to reset context.")

\* A PatternSkill whose stagnation rule stays under the override threshold.
PatternSkillTimid(history) ==
    IF Len(history) < 3
    THEN Declines("PatternDetector")
    ELSE LET last == SubSeq(history, Len(history) - 2, Len(history))
             last_actions == SelectSeq(last, LAMBDA t : t.action_plan # <<>>)
             last_summaries == SelectSeq(last, LAMBDA t : t.observation # NoneV)
         IN  IF /\ Len(last_actions) = 3
                /\ \A k \in 1..3 : last_actions[k].action_plan[1].capability
                                      = last_actions[1].action_plan[1].capability
             THEN RepeatedActions("PatternDetector")
             ELSE IF /\ Len(last_summaries) = 3
                     /\ \A k \in 1..3 : last_summaries[k].observation
                                           = last_summaries[1].observation
             THEN [Stagnation("PatternDetector") EXCEPT !.confidence = OverrideThreshold]
             ELSE Declines("PatternDetector")

\* PatternSkill.evaluate, skills/emergency/pattern.py lines 8-42: nothing
\* under three thoughts; the back plan when the last three thoughts all have
\* a plan and their first actions name the same capability; the HOME plan
\* when the last three thoughts all carry an observation with the same
\* summary; nothing otherwise.
PatternSkill(history) ==
    IF Len(history) < 3
    THEN Declines("PatternDetector")
    ELSE LET last == SubSeq(history, Len(history) - 2, Len(history))
             last_actions == SelectSeq(last, LAMBDA t : t.action_plan # <<>>)
             last_summaries == SelectSeq(last, LAMBDA t : t.observation # NoneV)
         IN  IF /\ Len(last_actions) = 3
                /\ \A k \in 1..3 : last_actions[k].action_plan[1].capability
                                      = last_actions[1].action_plan[1].capability
             THEN RepeatedActions("PatternDetector")
             ELSE IF /\ Len(last_summaries) = 3
                     /\ \A k \in 1..3 : last_summaries[k].observation
                                           = last_summaries[1].observation
             THEN Stagnation("PatternDetector")
             ELSE Declines("PatternDetector")

\* AppOpenerSkill.evaluate, skills/critical/app_opener.py lines 10-101: what
\* it can return, and an exception of the code it calls.
AppOpenerResults ==
    { Declines("AppOpener"),
      SkillResult("AppOpener", <<>>, 50, TRUE, FALSE, "let the oracle decide"),
      SkillResult("AppOpener", << Action("open_app", AppParams("settings"), FALSE, FALSE) >>,
                  95, TRUE, TRUE, "Opening known app"),
      SkillResult("AppOpener", << Action("open_app", AppParams("com.example.notes"), FALSE, FALSE) >>,
                  91, TRUE, TRUE, "Found package via ADB"),
      SkillRaises("AppOpener") }

\* The four advisory skills (skills/advisory): each declines or suggests
\* without overriding.
AdvisorySkills == << "SettingsEscape", "SmartSearch", "SmartScroll", "ExplorationHelper" >>

Advises(name) == SkillResult(name, <<>>, 70, TRUE, FALSE, "a suggestion")

AdvisoryResults ==
    { [k \in 1..4 |-> Declines(AdvisorySkills[k])],
      [k \in 1..4 |-> Advises(AdvisorySkills[k])] }

\* EmergencyHomeSkill.evaluate, skills/emergency/home_rescue.py lines 8-23.
HomeRescueResults(history) ==
    IF Len(history) >= 5
    THEN { Declines("HomeRescue"),
           SkillResult("HomeRescue", HomePlan, 93, TRUE, TRUE, "Emergency: No progress in 5 steps.") }
    ELSE { Declines("HomeRescue") }

\* The evaluations check_skills collects from the default skills.
DefaultEvals(history) ==
    { << a >> \o adv \o << PatternSkill(history), h >> :
         a \in AppOpenerResults, adv \in AdvisoryResults, h \in HomeRescueResults(history) }

\* Lines 175-188 on an orchestrator with the default skills.
SkillCheckDefault == SkillCheckOver(DefaultEvals(thought_history))

\* The thoughts an earlier mission of the same orchestrator left in the
\* history: of the oracle or of the fallback, on this screen or another.
EarlierThoughts ==
    { Thought(0, "oracle", << Action("tap", Params("5", "0", NoneV, NoneV), FALSE, FALSE) >>,
              80, scr) : scr \in Screens \cup {"Home screen"} }
      \cup { Thought(0, "fallback", FallbackPlan, 50, scr) : scr \in Screens }

InitPattern ==
    /\ InitWith({ <<>> }, SeqsUpTo(EarlierThoughts, 3))
    /\ ~parallel_actions

\* start_mission(goal), resume left at its default.
StartFresh ==
    /\ StartMission
    /\ ~resume'

NextPattern ==
    \/ StartFresh
    \/ LoopCheck
    \/ Observe
    \/ BackoffDone
    \/ SkillCheckDefault
    \/ Reason
    \/ SeqStep
    \/ FinishStep
    \/ PaceDone
    \/ CompleteMission
    \/ Stop

SpecPattern == InitPattern /\ [][NextPattern]_vars

(***************************************************************************)
(* The orchestrator across restarts: the process ends at any point and a   *)
(* fresh AndroMancerAgent is built; only the files are kept.               *)
(***************************************************************************)
Restart ==
    /\ pc # "idle"
    /\ mission' = NoMission
    /\ stop_event' = FALSE
    /\ thought_history' = <<>>
    /\ working_memory' = <<>>
    /\ pc' = "idle"
    /\ retry_count' = 0
    /\ observation' = NoneV
    /\ sleep_for' = 0
    /\ PlanGone
    /\ skill_evals' = <<>>
    /\ skill_ret' = NoSkillReturn
    /\ oracle_failed' = FALSE
    /\ resume' = FALSE
    /\ event_history' = <<>>
    /\ UNCHANGED << state_file, config_vars, store_vars, bus_vars, task_vars >>

InitFresh == Init /\ state_file = <<>>

NextRestart == Next \/ Restart

SpecRestart == InitFresh /\ [][NextRestart]_vars

(***************************************************************************)
(* The orchestrator of the single-file program (src/andromancer.py,        *)
(* AndroMancerAgent, lines 746-954).  start_mission, the loop condition,   *)
(* the handler of RecoverableError, the sleeps and stop() are the code of  *)
(* the package line for line; the loop has no skill check, retries after   *)
(* any exception, archives the state file on completion and has pause().   *)
(***************************************************************************)
LegacyPlans == SeqsUpTo(LoopActions, LoopPlan)

\* Lines 789-792: get_ui; a failed result raises RecoverableError (829-839).
LegacyObserve ==
    /\ pc = "observe"
    /\ \E outcome \in CapOutcomes, screen \in Screens :
          IF ~ExecuteAction(outcome, 0).success
          THEN /\ Recover
               /\ UNCHANGED observation
          ELSE /\ observation' = screen
               /\ pc' = "reason"
               /\ UNCHANGED << mission, retry_count, sleep_for >>
    /\ UNCHANGED << state_file, stop_event, config_vars, store_vars, bus_vars, task_vars, event_history, resume, thought_history,
                    working_memory, plan_vars, skill_vars, oracle_failed >>

\* Lines 803-812: reason() and the empty plan.
LegacyReason ==
    /\ pc = "reason"
    /\ \E p \in LegacyPlans :
          /\ thought_history' = Append(thought_history,
                                       Thought(mission.current_step, "oracle", p, 80, observation))
          /\ IF p = <<>>
             THEN /\ mission' = [mission EXCEPT !.status = "COMPLETED"]
                  /\ pc' = "complete"
                  /\ UNCHANGED plan
             ELSE /\ plan' = p
                  /\ pc' = "act"
                  /\ UNCHANGED mission
    /\ UNCHANGED << state_file, stop_event, config_vars, store_vars, bus_vars, task_vars, event_history, resume, working_memory,
                    retry_count, observation, sleep_for, plan_source, results, todo, tasks,
                    calls, skill_vars, oracle_failed >>

\* Lines 815 and 860-897: _execute_plan returns one result per action, or
\* the KeyError of an action without a capability key reaches the handler of
\* lines 848-856, which retries like the handler of RecoverableError.
LegacyAct ==
    /\ pc = "act"
    /\ IF \E i \in 1..Len(plan) : ~HasCapabilityKey(plan[i])
       THEN /\ Recover
            /\ UNCHANGED results
       ELSE /\ \E outcomes \in [1..Len(plan) -> CapOutcomes] :
                  results' = [i \in 1..Len(plan) |-> ExecuteAction(outcomes[i], i)]
            /\ pc' = "reflect"
            /\ UNCHANGED << mission, retry_count, sleep_for >>
    /\ UNCHANGED << state_file, stop_event, config_vars, store_vars, bus_vars, task_vars, event_history, resume, thought_history,
                    working_memory, observation, plan, plan_source, todo, tasks, calls,
                    skill_vars, oracle_failed >>

\* Lines 818-828: reflection, then the step is counted and persisted.
LegacyFinishStep ==
    /\ pc = "reflect"
    /\ retry_count' = 0
    /\ mission' = Advance(mission)
    /\ state_file' = _save_state(Advance(mission))
    /\ sleep_for' = PaceDelay
    /\ pc' = "pace"
    /\ PlanGone
    /\ UNCHANGED << stop_event, config_vars, store_vars, bus_vars, task_vars, event_history, resume, thought_history, working_memory,
                    observation, skill_vars, oracle_failed >>

\* _cleanup, lines 941-946: the state file is renamed completed_<id>.json;
\* a rename that fails is logged and leaves the file.
_cleanup(renamed) ==
    IF state_file # <<>> /\ renamed
    THEN /\ archived' = archived \cup { [id |-> mission.id, record |-> state_file[1]] }
         /\ state_file' = <<>>
    ELSE UNCHANGED << archived, state_file >>

\* _complete_mission, lines 911-923.
LegacyCompleteMission ==
    /\ pc = "complete"
    /\ mission' = FinalStatus(mission)
    /\ \E renamed \in BOOLEAN : _cleanup(renamed)
    /\ pc' = "done"
    /\ UNCHANGED << stop_event, config_vars, memories, retrieval, corpus_file, bus_vars, task_vars,
                    event_history, resume,
                    thought_history,
                    working_memory, retry_count, observation, sleep_for, plan_vars, skill_vars,
                    oracle_failed >>

\* pause(), lines 948-951.
Pause ==
    /\ mission # NoMission
    /\ mission.status # "PAUSED"
    /\ mission' = [mission EXCEPT !.status = "PAUSED"]
    /\ state_file' = _save_state([mission EXCEPT !.status = "PAUSED"])
    /\ UNCHANGED << stop_event, config_vars, store_vars, bus_vars, task_vars, event_history, resume, thought_history, working_memory,
                    pc, retry_count, observation, sleep_for, plan_vars, skill_vars, oracle_failed >>

NextLegacy ==
    \/ StartMission
    \/ LoopCheck
    \/ LegacyObserve
    \/ BackoffDone
    \/ LegacyReason
    \/ LegacyAct
    \/ LegacyFinishStep
    \/ PaceDone
    \/ LegacyCompleteMission
    \/ Pause
    \/ Stop

SpecLegacy == InitFresh /\ [][NextLegacy]_vars

(***************************************************************************)
(* _execute_plan on its own: a running mission whose oracle has just       *)
(* proposed a plan, in a program that registered one more capability       *)
(* ("custom", of any risk level) and may have plugged a rejecting safety   *)
(* callback.  "ghost" is a name nobody registers.                          *)
(***************************************************************************)
TapXY == Params("5", "0", NoneV, NoneV)

PlanActions ==
    { Action("tap", TapXY, FALSE, FALSE),
      Action("tap", TapXY, TRUE, FALSE),
      Action("tap", TapXY, FALSE, TRUE),
      Action("tap", NoParams, FALSE, FALSE),
      Action("tap", NoParams, TRUE, FALSE),
      Action("tap", Params("5", NoneV, NoneV, NoneV), FALSE, TRUE),
      Action("tap", Params(NoneV, NoneV, "{}", NoneV), FALSE, FALSE),
      Action("tap", Params(NoneV, NoneV, "node", NoneV), FALSE, FALSE),
      Action("type", Params(NoneV, NoneV, NoneV, ""), TRUE, FALSE),
      Action("type", NoParams, FALSE, TRUE),
      Action("type", Params(NoneV, NoneV, NoneV, "hello"), FALSE, FALSE),
      Action("custom", NoParams, FALSE, FALSE),
      Action("custom", NoParams, TRUE, FALSE),
      Action("ghost", NoParams, TRUE, FALSE),
      Action(NoneV, NoParams, FALSE, FALSE) }

Plans == SeqsUpTo(PlanActions, MaxPlan)

InitPlan ==
    /\ \E goal \in Goals : mission = Mission("a3f09c1e", goal, "RUNNING", MaxSteps, 0)
    /\ state_file = <<>>
    /\ stop_event = FALSE
    /\ parallel_actions \in BOOLEAN
    /\ \E risk \in RiskLevels : capabilities = register(DefaultCapabilities, "custom", risk)
    /\ safety_check_callback \in {"_check_safety", "deny"}
    /\ plan \in Plans \ { <<>> }
    /\ observation \in Screens
    /\ thought_history = << Thought(0, "oracle", plan, 80, observation) >>
    /\ working_memory = <<>>
    /\ retry_count = 0
    /\ sleep_for = 0
    /\ plan_source = "oracle"
    /\ results = <<>>
    /\ tasks = <<>>
    /\ calls = <<>>
    /\ todo = IF parallel_actions THEN <<>> ELSE Positions(plan)
    /\ pc = IF parallel_actions THEN "exec_par" ELSE "exec_seq"
    /\ skill_evals = <<>>
    /\ skill_ret = NoSkillReturn
    /\ oracle_failed = FALSE
    /\ resume = FALSE
    /\ archived = {}
    /\ memories = <<>>
    /\ retrieval = NoRetrieval
    /\ corpus_file = <<>>
    /\ event_history = <<>>
    /\ handlers = << "_log_events" >>
    /\ dispatch = NoDispatch
    /\ InitTasks

NextPlan ==
    \/ SeqStep
    \/ BatchStart
    \/ \E k \in 1..MaxPlan : k <= Len(tasks) /\ TaskStart(k)
    \/ \E k \in 1..MaxPlan : k <= Len(tasks) /\ TaskFinish(k)
    \/ Gather
    \/ DepStep

SpecPlan == InitPlan /\ [][NextPlan]_vars

\* The step as a whole: _execute_plan, then the reflection loop and the
\* counting of the step (lines 224-238).
NextStep == NextPlan \/ FinishStep

SpecStep == InitPlan /\ [][NextStep]_vars

(***************************************************************************)
(* check_skills on its own: a registry of up to MaxSkills skills, each     *)
(* returning any result of the pool or raising.                            *)
(***************************************************************************)
SkillNames == << "AppOpener", "SettingsEscape", "Search", "Scroll", "Exploration",
                 "PatternDetector", "EmergencyHome" >>

Confidences == {90, 93, 95}

SkillEvaluations(name) ==
    { SkillResult(name, <<>>, c, h, o, sg) :
        c \in Confidences, h \in BOOLEAN, o \in BOOLEAN, sg \in {NoneV, "", "hint"} }
      \cup { SkillRaises(name) }

SkillRuns ==
    UNION { { evals \in [1..n -> UNION { SkillEvaluations(SkillNames[i]) : i \in 1..n }] :
                \A i \in 1..n : evals[i].name = SkillNames[i] } : n \in 0..MaxSkills }

InitSkills ==
    /\ mission = NoMission
    /\ state_file = <<>>
    /\ stop_event = FALSE
    /\ parallel_actions = TRUE
    /\ capabilities = DefaultCapabilities
    /\ safety_check_callback = "_check_safety"
    /\ thought_history = <<>>
    /\ working_memory = <<>>
    /\ pc = "harness"
    /\ retry_count = 0
    /\ observation = NoneV
    /\ sleep_for = 0
    /\ plan = <<>>
    /\ plan_source = NoneV
    /\ results = <<>>
    /\ todo = <<>>
    /\ tasks = <<>>
    /\ calls = <<>>
    /\ skill_evals \in SkillRuns
    /\ skill_ret = NoSkillReturn
    /\ oracle_failed = FALSE
    /\ resume = FALSE
    /\ archived = {}
    /\ memories = <<>>
    /\ retrieval = NoRetrieval
    /\ corpus_file = <<>>
    /\ event_history = <<>>
    /\ handlers = << "_log_events" >>
    /\ dispatch = NoDispatch
    /\ InitTasks

CheckSkills ==
    /\ pc = "harness"
    /\ skill_ret' = check_skills(skill_evals)
    /\ pc' = "checked"
    /\ UNCHANGED << mission, state_file, stop_event, config_vars, store_vars, bus_vars, task_vars, event_history, resume, thought_history,
                    working_memory, retry_count, observation, sleep_for, plan_vars,
                    skill_evals, oracle_failed >>

NextSkills == CheckSkills

SpecSkills == InitSkills /\ [][NextSkills]_vars

(***************************************************************************)
(* check_skills over registries whose skills carry any priority tag: each  *)
(* skill handles the goal and returns any result of the pool.              *)
(***************************************************************************)
TaggedEvaluations(name) ==
    { Tagged(SkillResult(name, <<>>, c, TRUE, o, sg), t) :
        c \in Confidences, o \in BOOLEAN, sg \in {NoneV, "hint"}, t \in SkillPriority }

TaggedRuns ==
    UNION { { evals \in [1..n -> UNION { TaggedEvaluations(SkillNames[i]) : i \in 1..n }] :
                \A i \in 1..n : evals[i].name = SkillNames[i] } : n \in 0..MaxSkills }

InitTags ==
    /\ mission = NoMission
    /\ state_file = <<>>
    /\ stop_event = FALSE
    /\ parallel_actions = TRUE
    /\ capabilities = DefaultCapabilities
    /\ safety_check_callback = "_check_safety"
    /\ thought_history = <<>>
    /\ working_memory = <<>>
    /\ pc = "harness"
    /\ retry_count = 0
    /\ observation = NoneV
    /\ sleep_for = 0
    /\ plan = <<>>
    /\ plan_source = NoneV
    /\ results = <<>>
    /\ todo = <<>>
    /\ tasks = <<>>
    /\ calls = <<>>
    /\ skill_evals \in TaggedRuns
    /\ skill_ret = NoSkillReturn
    /\ oracle_failed = FALSE
    /\ resume = FALSE
    /\ archived = {}
    /\ memories = <<>>
    /\ retrieval = NoRetrieval
    /\ corpus_file = <<>>
    /\ event_history = <<>>
    /\ handlers = << "_log_events" >>
    /\ dispatch = NoDispatch
    /\ InitTasks

NextTags == CheckSkills

SpecTags == InitTags /\ [][NextTags]_vars

(***************************************************************************)
(* MemoryStore (core/memory.py).  A memory is its id, content, embedding   *)
(* and access_count (metadata, timestamp and last_access are dataclass     *)
(* fields with defaults like access_count and are left out); a retrieve    *)
(* result is the sequence of the positions in MemoryStore.memories of the  *)
(* Memory objects it returns.  Similarities are ranks: 0 is the cosine 0.0 *)
(* and the greatest rank is the cosine 1.0 of a vector with itself.        *)
(***************************************************************************)
Contents == {"", "Screen with no visible text", "Learned: tap works"}
Similarities == 0..2
Reflexive == 2

\* _hash_embedding, lines 37-42: a vector that is a function of the text.
_hash_embedding(text) == << "md5", text >>

\* The dataclass of lines 20-28 as store builds it (lines 46-51); the id is
\* the digest of the content and the clock, read here as the corpus length.
Memory(content, time) ==
    [id |-> << content, time >>, content |-> content,
     embedding |-> _hash_embedding(content), access_count |-> 0]

MemoryFields == {"id", "content", "embedding", "access_count"}
RequiredFields == {"id", "content"}
FieldDefaults == [embedding |-> NoneV, access_count |-> 0]

\* A load that drops the records written before the newer fields existed.
FromFileStrict(data) ==
    LET whole == SelectSeq(data, LAMBDA m : DOMAIN m = MemoryFields)
    IN  [i \in 1..Len(whole) |-> whole[i]]

\* Line 124: [Memory(**m) for m in data].  A missing field takes its default;
\* a record without id or content, or with a key that is no field, raises
\* TypeError and the except of line 125 leaves self.memories empty.
FromFile(data) ==
    IF \A i \in 1..Len(data) :
          RequiredFields \subseteq DOMAIN data[i] /\ DOMAIN data[i] \subseteq MemoryFields
    THEN [i \in 1..Len(data) |->
            [f \in MemoryFields |->
                IF f \in DOMAIN data[i] THEN data[i][f] ELSE FieldDefaults[f]]]
    ELSE <<>>

\* _load, lines 119-126.
_load(file) == IF file = <<>> THEN <<>> ELSE FromFile(file[1])

\* _save, lines 111-117: the whole list, every field of every memory.
_save(mems) == << mems >>

\* store, lines 44-54.
Store ==
    /\ pc = "memory"
    /\ Len(memories) < MaxMemories
    /\ \E content \in Contents :
          /\ memories' = Append(memories, Memory(content, Len(memories)))
          /\ corpus_file' = _save(memories')
    /\ UNCHANGED << mission, state_file, stop_event, config_vars, archived, retrieval, bus_vars, task_vars,
                    event_history, resume,
                    thought_history, working_memory, pc, retry_count, observation, sleep_for,
                    plan_vars, skill_vars, oracle_failed >>

\* The orders in which n positions can be listed.
Orderings ==
    [n \in 0..MaxMemories |->
        { p \in [1..n -> 1..n] : \A i, j \in 1..n : p[i] = p[j] => i = j }]

\* An argsort that is not reversed: the least similar first.
ArgsortAscending(sim) ==
    { p \in Orderings[Len(sim)] :
        \A i, j \in 1..Len(sim) : i < j => sim[p[i]] <= sim[p[j]] }

\* Line 71: similarities.argsort()[::-1]: the positions by non-increasing
\* similarity; numpy's default sort leaves the order of equal keys open.
ArgsortReversed(sim) ==
    { p \in Orderings[Len(sim)] :
        \A i, j \in 1..Len(sim) : i < j => sim[p[i]] >= sim[p[j]] }

\* Line 96: sort(reverse=True) is stable, equal keys keep their order.
SortedReversed(sim) ==
    CHOOSE p \in Orderings[Len(sim)] :
        \A i, j \in 1..Len(sim) : i < j =>
            \/ sim[p[i]] > sim[p[j]]
            \/ sim[p[i]] = sim[p[j]] /\ p[i] < p[j]

\* A slice that takes one element too many.
TopKInclusive(order, k) ==
    [i \in 1..(IF k + 1 <= Len(order) THEN k + 1 ELSE Len(order)) |-> order[i]]

\* The slices [:top_k] of lines 71 and 97, for top_k >= 0.
TopK(order, k) == [i \in 1..(IF k <= Len(order) THEN k ELSE Len(order)) |-> order[i]]

\* Lines 74-77: only the memories of positive similarity are returned.
Relevant(order, sim) == SelectSeq(order, LAMBDA i : sim[i] > 0)

\* An update that keeps the returned memories only, in the returned order.
TouchReturnedOnly(mems, result) ==
    [k \in 1..Len(result) |-> [mems[result[k]] EXCEPT !.access_count = @ + 1]]

\* Lines 80-82 and 99-101: the access statistics of the returned memories.
Touch(mems, result) ==
    [i \in 1..Len(mems) |->
        IF \E k \in 1..Len(result) : result[k] = i
        THEN [mems[i] EXCEPT !.access_count = @ + 1]
        ELSE mems[i]]

\* The char_wb analyzer of line 64 finds no n-gram in a text without a word.
Blank(text) == text = ""

\* Lines 64-68: the cosines of the query with the documents.  A text without
\* n-gram has the zero vector and cosine 0 with everything; a document equal
\* to the query has the query's vector and the cosine 1.0, the greatest.
NgramSimilarities(query, documents) ==
    { t \in [documents -> Similarities] :
        /\ \A c \in documents : Blank(c) \/ Blank(query) => t[c] = 0
        /\ query \in documents /\ ~Blank(query) => t[query] = Reflexive }

\* Lines 89-94 and 104-109: the cosines of the hash vectors, 1.0 for the
\* vector of the query's own text.
HashSimilarities(query, documents) ==
    { t \in [documents -> Similarities] : query \in documents => t[query] = Reflexive }

\* Line 93: _legacy_cosine_similarity is 0 for a memory without embedding.
_legacy_cosine_similarity(t, mem) == IF mem.embedding = NoneV THEN 0 ELSE t[mem.content]

\* Line 65: fit_transform raises ValueError (empty vocabulary) when no
\* document has an n-gram.
EmptyVocabulary(mems) == \A i \in 1..Len(mems) : Blank(mems[i].content)

\* retrieve, lines 56-102.  has_sklearn is the import of lines 11-16 and
\* tfidf_raises an exception of the vectorizer, which sends the call to the
\* hash strategy before any memory was touched.
Retrieve ==
    /\ pc = "memory"
    /\ retrieval.calls < MaxRetrievals
    /\ \E top_k \in 0..MaxTopK, query \in Contents, has_sklearn \in BOOLEAN :
       \E tfidf_raises \in IF EmptyVocabulary(memories) THEN {TRUE} ELSE BOOLEAN :
          LET n == Len(memories)
              strategy == IF n = 0 THEN NoneV
                          ELSE IF has_sklearn /\ n > 1 /\ ~tfidf_raises THEN "ngram"
                          ELSE "hash"
              documents == { memories[i].content : i \in 1..n }
          IN  \E t \in IF strategy = "ngram" THEN NgramSimilarities(query, documents)
                       ELSE HashSimilarities(query, documents) :
                LET sims == [i \in 1..n |->
                                IF strategy = "ngram" THEN t[memories[i].content]
                                ELSE _legacy_cosine_similarity(t, memories[i])]
                IN  \E result \in
                        IF strategy = NoneV THEN { <<>> }
                        ELSE IF strategy = "ngram"
                        THEN { Relevant(TopK(order, top_k), sims) :
                                  order \in ArgsortReversed(sims) }
                        ELSE { TopK(SortedReversed(sims), top_k) } :
                       /\ memories' = Touch(memories, result)
                       /\ retrieval' = [calls |-> retrieval.calls + 1, top_k |-> top_k,
                                        query |-> query, strategy |-> strategy,
                                        sims |-> sims, result |-> result]
    /\ UNCHANGED << mission, state_file, stop_event, config_vars, archived, corpus_file, bus_vars, task_vars,
                    event_history, resume,
                    thought_history, working_memory, pc, retry_count, observation, sleep_for,
                    plan_vars, skill_vars, oracle_failed >>

\* What cfg.VECTOR_DB_PATH may hold when the store is constructed: no file,
\* a record written before the newer fields existed, such a record after a
\* whole one, and a list with an entry that is not a memory.
LegacyRecord(content) == [id |-> << content, 0 >>, content |-> content]
CorpusFiles ==
    { <<>> }
    \cup { << << LegacyRecord(c) >> >> : c \in Contents }
    \cup { << << Memory("Learned: tap works", 0), LegacyRecord("") >> >>,
           << << LegacyRecord("Learned: tap works"), [id |-> << "", 1 >>] >> >> }

\* __init__, lines 32-35: the corpus is loaded from the file.
InitMemory ==
    /\ mission = NoMission
    /\ state_file = <<>>
    /\ stop_event = FALSE
    /\ parallel_actions = TRUE
    /\ capabilities = DefaultCapabilities
    /\ safety_check_callback = "_check_safety"
    /\ thought_history = <<>>
    /\ working_memory = <<>>
    /\ pc = "memory"
    /\ retry_count = 0
    /\ observation = NoneV
    /\ sleep_for = 0
    /\ plan = <<>>
    /\ plan_source = NoneV
    /\ results = <<>>
    /\ todo = <<>>
    /\ tasks = <<>>
    /\ calls = <<>>
    /\ skill_evals = <<>>
    /\ skill_ret = NoSkillReturn
    /\ oracle_failed = FALSE
    /\ resume = FALSE
    /\ archived = {}
    /\ corpus_file \in CorpusFiles
    /\ event_history = <<>>
    /\ handlers = << "_log_events" >>
    /\ dispatch = NoDispatch
    /\ InitTasks
    /\ memories = _load(corpus_file)
    /\ retrieval = NoRetrieval

NextMemory == Store \/ Retrieve

SpecMemory == InitMemory /\ [][NextMemory]_vars

(***************************************************************************)
(* EventBus on its own: handlers that return or raise are subscribed and   *)
(* events are emitted, numbered by their step field.  One emit call is the *)
(* append to the history, one step per handler, and the return.            *)
(***************************************************************************)
HandlerKinds == {"_log_events", "raises"}

\* The event of the n-th emit call.
Numbered(n) == AgentEvent("OBSERVATION", [step |-> n, screen |-> ""])

InitComponent(at) ==
    /\ mission = NoMission
    /\ state_file = <<>>
    /\ stop_event = FALSE
    /\ parallel_actions = TRUE
    /\ capabilities = DefaultCapabilities
    /\ safety_check_callback = "_check_safety"
    /\ thought_history = <<>>
    /\ working_memory = <<>>
    /\ pc = at
    /\ retry_count = 0
    /\ observation = NoneV
    /\ sleep_for = 0
    /\ plan = <<>>
    /\ plan_source = NoneV
    /\ results = <<>>
    /\ todo = <<>>
    /\ tasks = <<>>
    /\ calls = <<>>
    /\ skill_evals = <<>>
    /\ skill_ret = NoSkillReturn
    /\ oracle_failed = FALSE
    /\ resume = FALSE
    /\ archived = {}
    /\ memories = <<>>
    /\ retrieval = NoRetrieval
    /\ corpus_file = <<>>
    /\ event_history = <<>>
    /\ handlers = <<>>
    /\ dispatch = NoDispatch
    /\ InitTasks

InitEvents == InitComponent("bus")

bus_rest ==
    << mission, state_file, stop_event, config_vars, store_vars, resume, thought_history,
       working_memory, pc, retry_count, observation, sleep_for, plan_vars, skill_vars,
       oracle_failed >>

\* subscribe, lines 57-58.
Subscribe ==
    /\ pc = "bus"
    /\ dispatch.event = <<>>
    /\ Len(handlers) < MaxHandlers
    /\ \E kind \in HandlerKinds : handlers' = Append(handlers, kind)
    /\ UNCHANGED << event_history, dispatch, bus_rest, task_vars >>

\* emit, line 61: the event is appended to the history.
EmitBegin ==
    /\ pc = "bus"
    /\ dispatch.event = <<>>
    /\ dispatch.emits < MaxEmits
    /\ event_history' = deque_append(event_history, << Numbered(dispatch.emits + 1) >>)
    /\ dispatch' = [emits |-> dispatch.emits + 1, event |-> << Numbered(dispatch.emits + 1) >>,
                    next |-> 1, delivered |-> <<>>, raised |-> FALSE]
    /\ UNCHANGED << handlers, bus_rest, task_vars >>

\* emit, lines 62-66: the next handler is awaited with the event.
Deliver ==
    /\ pc = "bus"
    /\ dispatch.event # <<>>
    /\ dispatch.next <= Len(handlers)
    /\ dispatch' = AfterHandler(dispatch, handlers[dispatch.next],
                                event_history # <<>>
                                  /\ event_history[Len(event_history)] = dispatch.event[1])
    /\ UNCHANGED << event_history, handlers, bus_rest, task_vars >>

\* emit returns after the last handler.
EmitEnd ==
    /\ pc = "bus"
    /\ dispatch.event # <<>>
    /\ dispatch.next > Len(handlers)
    /\ dispatch' = [dispatch EXCEPT !.event = <<>>]
    /\ UNCHANGED << event_history, handlers, bus_rest, task_vars >>

NextEvents == Subscribe \/ EmitBegin \/ Deliver \/ EmitEnd

SpecEvents == InitEvents /\ [][NextEvents]_vars

(***************************************************************************)
(* AsyncLLMClient._request_with_retry and complete_chat,                   *)
(* core/llm_client.py lines 20-99                                          *)
(***************************************************************************)
\* max_retries of _request_with_retry, line 20.
request_retries == 3

\* What client.post ends with: a response (its status code and, for a 429,
\* the wait its message suggests, in tenths of a second) or the exception
\* it raises.
HttpResponse(status, hint) == [error |-> NoneV, status |-> status, hint |-> hint]
HttpError(name) == [error |-> name, status |-> 0, hint |-> <<>>]

PostOutcomes ==
    { HttpResponse(s, <<>>) : s \in {200, 400, 404, 429, 500, 503} }
      \cup { HttpResponse(429, <<12>>) }
      \cup { HttpError(e) : e \in {"RequestError", "TimeoutError"} }

\* Lines 31-38 and 45, 54: the sleep before the next attempt.
wait_time(attempt, out) ==
    IF out.error = NoneV /\ out.status = 429 /\ out.hint # <<>>
    THEN out.hint[1] + 1
    ELSE 10 * Pow2(attempt + 1)

\* A _request_with_retry that returns a server error at once.
AfterPostNoServerRetry(req, out) ==
    LET sent == [req EXCEPT !.posts = Append(@, out)]
        again == [sent EXCEPT !.slept = Append(@, wait_time(req.attempt, out)),
                              !.attempt = @ + 1,
                              !.state = IF req.attempt + 1 < request_retries
                                        THEN "loop" ELSE "final"]
    IN  IF req.state = "final"
        THEN [sent EXCEPT !.state = IF out.error = NoneV THEN "returned" ELSE "raised"]
        ELSE IF out.error # NoneV
        THEN IF req.attempt = request_retries - 1
             THEN [sent EXCEPT !.state = "raised"]
             ELSE again
        ELSE IF out.status = 429
        THEN again
        ELSE [sent EXCEPT !.state = "returned"]

\* Lines 22-65: one client.post and what follows it up to the next post, the
\* return or the raise. In the loop (lines 22-55) a 429 or a status >= 500
\* sleeps and continues, another response is returned, an exception is
\* re-raised on the last round and otherwise sleeps; after the loop (lines
\* 58-63) whatever the post gives leaves the function.
AfterPost(req, out) ==
    LET sent == [req EXCEPT !.posts = Append(@, out)]
        again == [sent EXCEPT !.slept = Append(@, wait_time(req.attempt, out)),
                              !.attempt = @ + 1,
                              !.state = IF req.attempt + 1 < request_retries
                                        THEN "loop" ELSE "final"]
    IN  IF req.state = "final"
        THEN [sent EXCEPT !.state = IF out.error = NoneV THEN "returned" ELSE "raised"]
        ELSE IF out.error # NoneV
        THEN IF req.attempt = request_retries - 1
             THEN [sent EXCEPT !.state = "raised"]
             ELSE again
        ELSE IF out.status = 429 \/ out.status >= 500
        THEN again
        ELSE [sent EXCEPT !.state = "returned"]

\* How far the body of the final response parses, lines 86-94.
ResponseBodies == {"object", "not_json", "no_choices", "content_not_json", "content_other"}

\* complete_chat enters, lines 67-82: without an api key it raises before
\* any request, otherwise _request_with_retry starts its loop.
CallRequest ==
    /\ pc = "request"
    /\ request.state = "idle"
    /\ \E key \in {"", "gsk"} :
          request' = IF key = ""
                     THEN [request EXCEPT !.api_key = key, !.state = "answered",
                                          !.answer = << complete_chat(key, Reply("ok", 200, "object", <<>>, "0.8")) >>]
                     ELSE [request EXCEPT !.api_key = key, !.state = "loop"]
    /\ UNCHANGED << bus_vars, event_history, emitters, received, other, bus_rest >>

\* One round of _request_with_retry.
Post ==
    /\ pc = "request"
    /\ request.state \in {"loop", "final"}
    /\ \E out \in PostOutcomes : request' = AfterPost(request, out)
    /\ UNCHANGED << bus_vars, event_history, emitters, received, other, bus_rest >>

\* complete_chat after _request_with_retry left, lines 82-99.
Answer ==
    /\ pc = "request"
    /\ request.state \in {"returned", "raised"}
    /\ \E body \in ResponseBodies :
          LET last == request.posts[Len(request.posts)]
              reply == Reply(IF request.state = "raised" THEN last.error ELSE "ok",
                             last.status, body, <<>>, "0.8")
          IN  request' = [request EXCEPT !.state = "answered",
                                         !.answer = << complete_chat(request.api_key, reply) >>]
    /\ UNCHANGED << bus_vars, event_history, emitters, received, other, bus_rest >>

InitRequest == InitComponent("request")

NextRequest == CallRequest \/ Post \/ Answer

SpecRequest == InitRequest /\ [][NextRequest]_vars

(***************************************************************************)
(* EventBus.emit under concurrent callers, core/agent.py lines 60-66: the  *)
(* coroutines that asyncio.gather runs for a parallel batch (lines 296-308)*)
(* each call _check_safety (lines 333-339), which awaits emit.  emit awaits*)
(* the handlers one after another, so a handler that suspends hands the    *)
(* event loop to the next coroutine while its emit call is unfinished.     *)
(***************************************************************************)
\* What a subscribed handler does when awaited: _log_events (lines 386-388)
\* returns without suspending, another handler may raise at once (lines 64-66
\* log the exception and go on) or await something.
DispatchKinds == {"_log_events", "raises", "suspends"}

\* The n-th action of the batch: the capability a user registered.
BatchAction(n) == Action("custom", [n |-> n], FALSE, FALSE)

\* Lines 62-66 from the handler at position k: each handler is called with
\* the event, and the loop stops at the first one that suspends (at is its
\* position) or at the end of the list (at is 0).
RECURSIVE emit_from(_, _, _, _)
emit_from(hs, rcv, event, k) ==
    IF k > Len(hs)
    THEN [received |-> rcv, at |-> 0]
    ELSE LET called == [rcv EXCEPT ![k] = Append(@, event)]
         IN  IF hs[k] = "suspends"
             THEN [received |-> called, at |-> k]
             ELSE emit_from(hs, called, event, k + 1)

\* subscribe, lines 57-58.
SubscribeHandler ==
    /\ pc = "emit"
    /\ Len(handlers) < MaxHandlers
    /\ \E h \in DispatchKinds :
          /\ handlers' = Append(handlers, h)
          /\ received' = Append(received, <<>>)
    /\ UNCHANGED << dispatch, event_history, request, emitters, other, bus_rest >>

\* CapabilityRegistry.register of a capability with the risk level its class
\* declares (core/capabilities/base.py lines 54-56).
RegisterCapability ==
    /\ pc = "emit"
    /\ "custom" \notin DOMAIN capabilities
    /\ \E risk \in RiskLevels : capabilities' = register(capabilities, "custom", risk)
    /\ UNCHANGED << mission, state_file, stop_event, parallel_actions, safety_check_callback,
                    store_vars, resume, thought_history, working_memory, pc, retry_count,
                    observation, sleep_for, plan_vars, skill_vars, oracle_failed,
                    bus_vars, event_history, task_vars >>

\* A coroutine of the batch reaches the safety callback, which is awaited for
\* a high or critical capability, and _check_safety calls emit: line 61
\* appends the event, then the handlers run up to the first suspension.
EmitCall ==
    /\ pc = "emit"
    /\ Len(emitters) < MaxBatch
    /\ ExecuteEvents(capabilities, safety_check_callback, BatchAction(Len(emitters) + 1)) # <<>>
    /\ LET event == ExecuteEvents(capabilities, safety_check_callback,
                                  BatchAction(Len(emitters) + 1))[1]
           run == emit_from(handlers, received, event, 1)
       IN  /\ event_history' = deque_append(event_history, << event >>)
           /\ received' = run.received
           /\ emitters' = Append(emitters, [event |-> event, at |-> run.at])
    /\ UNCHANGED << handlers, dispatch, request, other, bus_rest >>

\* The handler an emit call is suspended in returns, and the call goes on
\* with the handlers after it.
ResumeEmit ==
    /\ pc = "emit"
    /\ \E i \in 1..Len(emitters) :
          /\ emitters[i].at > 0
          /\ LET run == emit_from(handlers, received, emitters[i].event, emitters[i].at + 1)
             IN  /\ received' = run.received
                 /\ emitters' = [emitters EXCEPT ![i].at = run.at]
    /\ UNCHANGED << handlers, dispatch, event_history, request, other, bus_rest >>

InitDispatch == InitComponent("emit")

NextDispatch == RegisterCapability \/ SubscribeHandler \/ EmitCall \/ ResumeEmit

SpecDispatch == InitDispatch /\ [][NextDispatch]_vars

(***************************************************************************)
(* Properties of the run loop                                              *)
(***************************************************************************)

\* C1: in a mission driven by one run loop, current_step never exceeds
\* max_steps and never decreases; it changes only by +1, and only in the
\* transition that ends an iteration whose plan returned without an
\* exception (the loop goes on to the pacing sleep with the mission Running).
C1_StepCounter ==
    /\ [](mission.current_step <= mission.max_steps)
    /\ [][ pc # "idle" =>
             /\ mission'.current_step >= mission.current_step
             /\ mission'.max_steps = mission.max_steps
             /\ mission'.current_step # mission.current_step =>
                   /\ mission'.current_step = mission.current_step + 1
                   /\ pc = "exec_return" /\ pc' = "pace"
                   /\ observation \in Screens
                   /\ mission'.status = "RUNNING" ]_vars

\* A fresh mission has counted its way up to the budget.
C1_Witness ==
    /\ pc = "pace"
    /\ mission.max_steps = MaxSteps
    /\ mission.current_step = mission.max_steps
    /\ Len(thought_history) = MaxSteps

\* C2: the k-th consecutive failed observation (k = 1, 2, 3) leaves
\* current_step alone and suspends the loop for 2^k seconds before the same
\* step is tried again; the 4th fails the mission without a sleep; a
\* completed step sets the counter back to 0.
C2_Backoff ==
    [][ /\ (pc = "observe" /\ pc' = "backoff") =>
              /\ retry_count' = retry_count + 1
              /\ retry_count' \in 1..3
              /\ sleep_for' = IF retry_count' = 1 THEN 20
                              ELSE IF retry_count' = 2 THEN 40 ELSE 80
              /\ mission' = mission
        /\ (pc = "observe" /\ retry_count = 3 /\ pc' # pc) =>
              \/ pc' = "skills"
              \/ /\ pc' = "complete"
                 /\ mission'.status = "FAILED"
                 /\ mission'.current_step = mission.current_step
                 /\ sleep_for' = sleep_for
        /\ (pc = "observe" /\ pc' = "complete") => retry_count = 3
        /\ (pc = "backoff" /\ pc' # pc) =>
              /\ pc' = "loop_top"
              /\ mission' = mission
              /\ retry_count' = retry_count
        /\ (pc = "exec_return" /\ pc' # pc) => retry_count' = 0 ]_vars

\* Three failures in a row after a step that succeeded: the loop is in its
\* 8 second backoff, still on the same step.
C2_Witness ==
    /\ pc = "backoff"
    /\ retry_count = 3
    /\ sleep_for = 80
    /\ mission.current_step >= 1
    /\ mission.status = "RUNNING"

(***************************************************************************)
(* Properties of the registry and of _execute_plan                         *)
(***************************************************************************)
HasCall(kind, i) == \E j \in 1..Len(calls) : calls[j] = <<kind, i>>

\* The results produced so far, returned by a loop or held by a finished
\* coroutine of the batch.
AllResults ==
    { results[j] : j \in 1..Len(results) }
      \cup { tasks[k].result : k \in {n \in 1..Len(tasks) : tasks[n].state = "done"} }

ResultsOf(i) == { r \in AllResults : r.src = i }

Executing == pc \in {"exec_seq", "exec_par", "exec_gather", "exec_dep", "exec_return"}

\* C3: when the action of a plan step raises, the registry hands back a
\* failed result carrying the exception text; the mission stays Running, the
\* step is counted and the loop goes on to the next iteration.
C3_RaiseContained ==
    /\ [](\A i \in 1..Len(plan) :
              (Executing /\ HasCall("raise", i)) =>
                  /\ mission.status = "RUNNING"
                  /\ ResultsOf(i) # {}
                  /\ \A r \in ResultsOf(i) : ~r.success /\ r.error = <<"boom">>)
    /\ [][ /\ (pc = "exec_return" /\ pc' # pc /\ \E i \in 1..Len(plan) : HasCall("raise", i)) =>
                 /\ pc' = "pace"
                 /\ mission'.status = "RUNNING"
                 /\ mission'.current_step = mission.current_step + 1
           /\ (pc = "pace" /\ pc' # pc) => (pc' = "loop_top" /\ mission' = mission) ]_vars

\* The step whose tap raised "boom" has been counted, the error text is in
\* working memory and the mission is Running.
C3_Witness ==
    /\ pc = "pace"
    /\ working_memory = << "tap", <<"boom">> >>
    /\ mission.status = "RUNNING"
    /\ mission.current_step >= 1

\* C4: execute with a name that is not registered returns a failed
\* "Unknown capability" result; neither the safety callback nor any action is
\* invoked for it, and the catalog never changes.
C4_UnknownCapability ==
    /\ [](\A i \in 1..Len(plan) :
              (HasCall("execute", i) /\ plan[i].capability \notin DOMAIN capabilities) =>
                  /\ ~HasCall("safety", i)
                  /\ ~HasCall("action", i)
                  /\ ~HasCall("return", i)
                  /\ ~HasCall("raise", i)
                  /\ ResultsOf(i) # {}
                  /\ \A r \in ResultsOf(i) :
                        /\ ~r.success
                        /\ r.error = <<"Unknown capability: ", plan[i].capability>>)
    /\ [][capabilities' = capabilities]_vars

\* A plan with the unregistered name has returned.
C4_Witness ==
    /\ pc = "exec_return"
    /\ \E i \in 1..Len(plan) :
          /\ plan[i].capability = "ghost"
          /\ HasCall("execute", i)
          /\ \E j \in 1..Len(results) : results[j].src = i

\* C5: for a registered capability of risk high or critical the safety
\* callback is invoked before the action; when it does not approve, the
\* action is not invoked and the result is the safety rejection; when it
\* approves, the action is invoked.  For risk low or medium the callback is
\* not invoked.
C5_SafetyGate ==
    \A i \in 1..Len(plan) :
        (HasCall("execute", i) /\ plan[i].capability \in DOMAIN capabilities) =>
            IF capabilities[plan[i].capability] \in {"high", "critical"}
            THEN /\ HasCall("safety", i)
                 /\ \A j, k \in 1..Len(calls) :
                       (calls[j] = <<"safety", i>> /\ calls[k] = <<"action", i>>) => j < k
                 /\ IF safety_check_callback = "_check_safety"
                    THEN HasCall("action", i)
                    ELSE /\ ~HasCall("action", i)
                         /\ ResultsOf(i) # {}
                         /\ \A r \in ResultsOf(i) :
                               /\ ~r.success
                               /\ r.error = <<"Safety check failed or rejected">>
            ELSE /\ ~HasCall("safety", i)
                 /\ HasCall("action", i)

\* A high-risk capability was refused by the plugged callback.
C5_Witness ==
    /\ pc = "exec_return"
    /\ safety_check_callback = "deny"
    /\ capabilities["custom"] = "high"
    /\ \E i \in 1..Len(plan) :
          /\ plan[i].capability = "custom"
          /\ HasCall("safety", i)
          /\ ~HasCall("action", i)

(***************************************************************************)
(* Properties of check_skills                                              *)
(***************************************************************************)
\* Eligibility as "override_llm is true and confidence exceeds 0.9".
OverridesAlone(r) == ~r.raises /\ r.override_llm /\ r.confidence > 90

\* Eligibility that also asks the result to accept the goal.
HandlesAndOverrides(r) == OverridesAlone(r) /\ r.can_handle

\* The earliest evaluation of greatest confidence among the eligible ones.
EarliestBest(Eligible(_)) ==
    LET idx == {i \in 1..Len(skill_evals) : Eligible(skill_evals[i])}
    IN  IF idx = {} THEN <<>>
        ELSE LET best == CHOOSE i \in idx : \A j \in idx :
                            \/ skill_evals[i].confidence > skill_evals[j].confidence
                            \/ /\ skill_evals[i].confidence = skill_evals[j].confidence
                               /\ i <= j
             IN  << skill_evals[best] >>

\* C6 as stated: check_skills returns as override the result of greatest
\* confidence among those with override_llm true and confidence above 0.9,
\* the earliest registered on a tie, and no override when there is none.
C6_OverrideAlone ==
    pc = "checked" => skill_ret.override = EarliestBest(OverridesAlone)

\* C6, amended: check_skills returns as override the result of greatest
\* confidence among those with can_handle true, override_llm true and
\* confidence above 0.9, the earliest registered on a tie, and no override
\* when there is none.
C6_BestOverride ==
    pc = "checked" => skill_ret.override = EarliestBest(HandlesAndOverrides)

\* Two skills tie at 0.95 and the first registered one is returned.
C6_Witness ==
    /\ pc = "checked"
    /\ Len(skill_evals) = 2
    /\ HandlesAndOverrides(skill_evals[1])
    /\ HandlesAndOverrides(skill_evals[2])
    /\ skill_evals[1].confidence = 95
    /\ skill_evals[2].confidence = 95
    /\ skill_evals[1].name # skill_evals[2].name
    /\ skill_ret.override = << skill_evals[1] >>

(***************************************************************************)
(* Properties of _execute_plan                                             *)
(***************************************************************************)
\* C7: in sequential mode the actions are validated and executed one at a
\* time in plan order; after the first failed critical action nothing more
\* is validated or executed; the returned results are exactly those of the
\* executed prefix; a failed action that is not critical does not stop the
\* plan.
C7_SequentialAbort ==
    ~parallel_actions =>
        /\ \A j \in 1..Len(results) : results[j].src = j /\ HasCall("validate", j)
        /\ \A j, k \in 1..Len(calls) : j < k => calls[j][2] <= calls[k][2]
        /\ \A j \in 1..Len(calls) : calls[j][2] <= Len(results) \/ pc = "complete"
        /\ \A i \in 1..Len(results) :
              (plan[i].critical /\ ~results[i].success) =>
                  (Len(results) = i /\ pc = "exec_return")
        /\ pc = "exec_return" =>
              \/ Len(results) = Len(plan)
              \/ /\ Len(results) \in 1..Len(plan)
                 /\ plan[Len(results)].critical
                 /\ ~results[Len(results)].success

\* A two-action plan was cut after its first, critical, failed action.
C7_Witness ==
    /\ ~parallel_actions
    /\ pc = "exec_return"
    /\ Len(plan) = 2
    /\ Len(results) = 1
    /\ plan[1].critical
    /\ ~results[1].success
    /\ ~HasCall("validate", 2)

\* The claim's own reading of an action that fails validation.
FailsValidation(a) ==
    \/ /\ a.capability = "tap"
       /\ a.params.x = "None" \/ a.params.y = "None"
       /\ a.params.element \in {"None", "{}"}
    \/ /\ a.capability = "type"
       /\ a.params.text \in {"None", ""}

\* C8: in parallel mode every independent action runs to completion and
\* contributes exactly one result, whatever its siblings do and whatever its
\* critical flag is, and _execute_plan returns exactly one result per action
\* of the plan.
C8_ParallelBatch ==
    parallel_actions =>
        /\ pc \in {"exec_dep", "exec_return"} =>
              \A i \in 1..Len(plan) : ~plan[i].depends_on =>
                  /\ Cardinality({j \in 1..Len(results) : results[j].src = i}) = 1
                  /\ HasCall("action", i) => (HasCall("return", i) \/ HasCall("raise", i))
                  /\ ( /\ ~FailsValidation(plan[i])
                       /\ plan[i].capability \in DOMAIN capabilities
                       /\ \/ capabilities[plan[i].capability] \in {"low", "medium"}
                          \/ safety_check_callback = "_check_safety" )
                        => HasCall("action", i)
        /\ pc = "exec_return" =>
              /\ Len(results) = Len(plan)
              /\ \A i \in 1..Len(plan) :
                    Cardinality({j \in 1..Len(results) : results[j].src = i}) = 1

\* Two independent actions: the first, critical, raised and the second
\* still ran and succeeded.
C8_Witness ==
    /\ parallel_actions
    /\ pc = "exec_return"
    /\ Len(plan) = 2
    /\ ~plan[1].depends_on /\ ~plan[2].depends_on
    /\ plan[1].critical
    /\ HasCall("raise", 1)
    /\ HasCall("return", 2)
    /\ \E j \in 1..Len(results) : results[j].src = 2 /\ results[j].success

\* C9: in the sequential loop, the parallel batch and the dependent loop an
\* action that fails validation yields a failed result with the validation
\* message, and its capability is never invoked through the registry.
C9_ValidationFirst ==
    \A i \in 1..Len(plan) : FailsValidation(plan[i]) =>
        /\ ~HasCall("execute", i)
        /\ ~HasCall("safety", i)
        /\ ~HasCall("action", i)
        /\ \A r \in ResultsOf(i) :
              /\ ~r.success
              /\ r.error = IF plan[i].capability = "tap" THEN TapError ELSE TypeError
        /\ (pc = "exec_return" /\ HasCall("validate", i)) =>
              \E j \in 1..Len(results) : results[j].src = i

\* A parallel plan whose independent tap and dependent type both failed
\* validation has returned both results.
C9_Witness ==
    /\ parallel_actions
    /\ pc = "exec_return"
    /\ Len(plan) = 2
    /\ ~plan[1].depends_on /\ plan[2].depends_on
    /\ plan[1].capability = "tap" /\ plan[2].capability = "type"
    /\ FailsValidation(plan[1]) /\ FailsValidation(plan[2])
    /\ Len(results) = 2

(***************************************************************************)
(* The fallback of reason()                                                *)
(***************************************************************************)
GetUiOnly ==
    << [capability |-> "get_ui",
        params |-> [x |-> "None", y |-> "None", element |-> "None", text |-> "None"],
        critical |-> FALSE, depends_on |-> FALSE] >>

\* C10: when the oracle call of reason() fails, reason() still returns: the
\* Thought it appends to the history has the single-action plan get_ui with
\* empty parameters, the mission stays Running and that plan is executed as
\* the step.
C10_OracleFallback ==
    /\ [][ (pc = "reason" /\ pc' # pc /\ oracle_failed') =>
              /\ Len(thought_history') = Len(thought_history) + 1
              /\ thought_history'[Len(thought_history')].action_plan = GetUiOnly
              /\ thought_history'[Len(thought_history')].step = mission.current_step
              /\ plan' = GetUiOnly
              /\ pc' \in {"exec_seq", "exec_par"}
              /\ mission' = mission
              /\ mission.status = "RUNNING" ]_vars
    /\ [](oracle_failed /\ Executing => plan = GetUiOnly /\ mission.status = "RUNNING")
    /\ [][ (oracle_failed /\ pc = "exec_return" /\ pc' # pc) =>
              /\ HasCall("action", 1)
              /\ Len(results) = 1
              /\ pc' = "pace"
              /\ mission'.status = "RUNNING"
              /\ mission'.current_step = mission.current_step + 1 ]_vars

\* The step that ran the fallback plan has been counted.
C10_Witness ==
    /\ pc = "pace"
    /\ Len(thought_history) >= 1
    /\ thought_history[Len(thought_history)].reasoning = "fallback"
    /\ thought_history[Len(thought_history)].action_plan = GetUiOnly
    /\ mission.status = "RUNNING"
    /\ mission.current_step >= 1

(***************************************************************************)
(* Properties of the mission's status                                      *)
(***************************************************************************)
LastThought(history) == history[Len(history)]

\* C11: a Running mission becomes Completed when the loop finds
\* current_step >= max_steps at the top of an iteration, or when reason(),
\* in a step without override, returns an empty plan (nothing is executed,
\* the step is not counted).  A skill override, also one with no actions,
\* does not complete the mission: its step is executed and counted.
C11_Completion ==
    /\ [][ (pc = "loop_top" /\ pc' # pc /\ ~stop_event /\ mission.status = "RUNNING"
               /\ mission.current_step >= mission.max_steps) =>
              (mission'.status = "COMPLETED" /\ pc' = "complete") ]_vars
    /\ [][ (pc = "reason" /\ pc' # pc) =>
              IF LastThought(thought_history').action_plan = <<>>
              THEN /\ mission'.status = "COMPLETED"
                   /\ mission'.current_step = mission.current_step
                   /\ pc' = "complete"
                   /\ calls' = <<>> /\ results' = <<>>
                   /\ state_file' = state_file
              ELSE /\ mission' = mission
                   /\ plan' = LastThought(thought_history').action_plan ]_vars
    /\ [][ (pc = "skills" /\ pc' # pc /\ skill_ret'.override # <<>>) =>
              /\ mission' = mission
              /\ plan_source' = "skill"
              /\ plan' = skill_ret'.override[1].actions
              /\ pc' \in {"exec_seq", "exec_par", "exec_return"} ]_vars
    /\ [][ (pc = "exec_return" /\ pc' # pc /\ plan_source = "skill") =>
              /\ mission'.status = "RUNNING"
              /\ mission'.current_step = mission.current_step + 1 ]_vars
    /\ [](plan_source = "skill" => mission.status = "RUNNING")
    /\ [][ mission.status = "COMPLETED" => mission'.status = "COMPLETED" ]_vars

\* An override without actions was counted as step 0, and the empty plan
\* of reason() completed the mission at step 1, short of the budget.
C11_Witness ==
    /\ pc = "complete"
    /\ mission.status = "COMPLETED"
    /\ mission.current_step = 1
    /\ mission.current_step < mission.max_steps
    /\ Len(thought_history) = 2
    /\ thought_history[1].reasoning = "skill" /\ thought_history[1].action_plan = <<>>
    /\ thought_history[2].reasoning = "oracle" /\ thought_history[2].action_plan = <<>>

\* C12: the mission becomes Failed only when the fourth consecutive
\* observation fails or an exception other than RecoverableError leaves the
\* step, and the loop ends then; a plan that returns, failed results
\* included, leaves the mission Running; a Failed status is never changed.
C12_Failure ==
    /\ [][ (mission'.status = "FAILED" /\ mission.status # "FAILED") =>
              /\ pc' = "complete"
              /\ \/ pc = "observe" /\ retry_count = max_retries
                 \/ /\ pc \in {"exec_seq", "exec_par", "exec_dep"}
                    /\ \E i \in 1..Len(plan) : plan[i].capability = "None" ]_vars
    /\ [][ (pc = "exec_return" /\ pc' # pc) => mission'.status = "RUNNING" ]_vars
    /\ [][ (pc = "complete" /\ pc' # pc) => pc' = "done" ]_vars
    /\ [][ mission.status = "FAILED" => mission' = mission ]_vars

\* The retry budget was used up and _complete_mission left the status Failed.
C12_Witness ==
    /\ pc = "done"
    /\ mission.status = "FAILED"
    /\ retry_count = max_retries + 1

\* The plan of the step has returned with a failed result in it.
ReturnedWithFailure ==
    /\ pc = "exec_return"
    /\ \E j \in 1..Len(results) : ~results[j].success

\* C13 as stated: a failed result of a plan action is a recoverable error:
\* the retry counter is incremented, the loop backs off and the step is
\* not counted.
C13_FailureRetried ==
    [][ (ReturnedWithFailure /\ pc' # pc) =>
           /\ pc' = "backoff"
           /\ retry_count' = retry_count + 1
           /\ mission'.current_step = mission.current_step ]_vars

\* C13, amended: a failed result of a plan action is not a recoverable
\* error: there is no backoff and no retry; the retry counter is reset to
\* 0, the step is counted, the mission stays Running, and in a step
\* without override the outcome of the last reflected action is what
\* working memory holds (its error when it failed).
C13_FailureFedBack ==
    [][ (ReturnedWithFailure /\ pc' # pc) =>
           /\ pc' = "pace"
           /\ sleep_for' = PaceDelay
           /\ retry_count' = 0
           /\ mission'.current_step = mission.current_step + 1
           /\ mission'.status = "RUNNING"
           /\ IF plan_source = "oracle"
              THEN LET n == IF Len(plan) <= Len(results) THEN Len(plan) ELSE Len(results)
                   IN  working_memory' = IF results[n].success THEN <<>>
                                         ELSE <<plan[n].capability, results[n].error>>
              ELSE working_memory' = working_memory ]_vars

\* The first step of a new mission had a tap that returned a failed result:
\* the step was counted and the error is in working memory.
C13_Witness ==
    /\ pc = "pace"
    /\ ~resume
    /\ mission.current_step = 1
    /\ retry_count = 0
    /\ working_memory = << "tap", <<"stderr">> >>

(***************************************************************************)
(* Persistence                                                             *)
(***************************************************************************)
\* C14: a mission persisted after step N and reloaded by start_mission with
\* resume on a fresh orchestrator has the id, goal, status, max_steps and
\* current_step of the record, and the next step the loop executes has
\* that index.
C14_ResumeRoundTrip ==
    /\ [][ state_file' # state_file =>
              /\ state_file'[1].id = mission'.id
              /\ state_file'[1].goal = mission'.goal
              /\ state_file'[1].status = <<"name", mission'.status>>
              /\ state_file'[1].max_steps = mission'.max_steps
              /\ state_file'[1].current_step = mission'.current_step
              /\ mission'.current_step = mission.current_step + 1 ]_vars
    /\ [][ (pc = "idle" /\ pc' # pc /\ resume' /\ state_file # <<>>) =>
              /\ mission'.id = state_file[1].id
              /\ mission'.goal = state_file[1].goal
              /\ <<"name", mission'.status>> = state_file[1].status
              /\ mission'.max_steps = state_file[1].max_steps
              /\ mission'.current_step = state_file[1].current_step ]_vars
    /\ [][ (resume /\ state_file # <<>> /\ thought_history = <<>> /\ thought_history' # <<>>) =>
              /\ mission.current_step = state_file[1].current_step
              /\ thought_history'[1].step = state_file[1].current_step ]_vars

\* A mission persisted after its first step was reloaded after a restart
\* and the step it then executed had index 1.
C14_Witness ==
    /\ resume
    /\ pc = "pace"
    /\ Len(thought_history) = 1
    /\ thought_history[1].step = 1
    /\ mission.current_step = 2
    /\ state_file # <<>>
    /\ state_file[1].current_step = 2

(***************************************************************************)
(* Stop                                                                    *)
(***************************************************************************)
\* C15: stop() only sets the flag; the step in progress runs to its end
\* (its plan or batch is executed as without the request, the step is
\* counted and persisted), the loop starts no further step and ends at its
\* next condition check.
C15_CooperativeStop ==
    /\ [][ stop_event' # stop_event =>
              /\ stop_event'
              /\ mission' = mission /\ pc' = pc /\ state_file' = state_file
              /\ plan' = plan /\ todo' = todo /\ tasks' = tasks /\ results' = results ]_vars
    /\ [][ (stop_event /\ pc = "loop_top" /\ pc' # pc) =>
              (pc' = "complete" /\ mission' = mission) ]_vars
    /\ [][ (stop_event /\ pc' = "complete" /\ pc # "complete") =>
              (pc = "loop_top" \/ mission'.status \in {"COMPLETED", "FAILED"}) ]_vars
    /\ [](stop_event /\ pc = "exec_return" =>
              \/ Len(results) = Len(plan)
              \/ /\ ~parallel_actions
                 /\ Len(results) \in 1..Len(plan)
                 /\ plan[Len(results)].critical /\ ~results[Len(results)].success)
    /\ [][ (stop_event /\ pc = "exec_return" /\ pc' # pc) =>
              /\ pc' = "pace"
              /\ mission'.current_step = mission.current_step + 1
              /\ state_file' # <<>>
              /\ state_file'[1].current_step = mission'.current_step
              /\ state_file'[1].id = mission'.id ]_vars
    /\ (stop_event ~> pc = "done")

\* The first step of a new mission ended under a stop request: it was
\* counted and persisted.
C15_Witness ==
    /\ stop_event
    /\ pc = "pace"
    /\ ~resume
    /\ mission.current_step = 1
    /\ state_file # <<>>
    /\ state_file[1].current_step = 1
    /\ Len(thought_history) = 1

(***************************************************************************)
(* Pause and the archive of the state file                                 *)
(***************************************************************************)
\* C16: after pause() on a Running mission the status is Paused and the
\* state file shows Paused at once; the loop starts no further step; the
\* status stays Paused, neither Completed nor Failed, as long as the
\* orchestrator holds the mission.
C16_PauseHolds ==
    /\ [][ (mission.status = "RUNNING" /\ mission'.status = "PAUSED") =>
              /\ state_file' # <<>>
              /\ state_file'[1].status = <<"name", "PAUSED">>
              /\ state_file'[1].id = mission.id ]_vars
    /\ [][ (mission.status = "PAUSED" /\ pc = "loop_top" /\ pc' # pc) =>
              pc' = "complete" ]_vars
    /\ [][ mission.status = "PAUSED" => mission'.status = "PAUSED" ]_vars

\* C17: once the loop has ended with the mission Completed or Failed, no
\* file is left under the active-state name (it was renamed with the
\* completion marker), so that a later start with resume finds nothing to
\* restore.
C17_ArchivedAtEnd ==
    (pc = "done" /\ mission.status \in {"COMPLETED", "FAILED"}) =>
        /\ state_file = <<>>
        /\ mission.current_step > 0 => \E a \in archived : a.id = mission.id

(***************************************************************************)
(* Fault isolation and suggestions of check_skills                         *)
(***************************************************************************)
\* The suggestions, prefixed with the skill's name, of the evaluations that
\* count, in registration order.
SuggestionsOf(Counts(_)) ==
    LET idx == SelectSeq([i \in 1..Len(skill_evals) |-> i],
                         LAMBDA i : Counts(skill_evals[i]))
    IN  [k \in 1..Len(idx) |-> <<skill_evals[idx[k]].name, skill_evals[idx[k]].suggestion>>]

\* A result with a non-empty suggestion.
Suggests(r) == ~r.raises /\ r.suggestion \notin {"None", ""}

\* A result that accepts the goal and has a non-empty suggestion.
HandlesAndSuggests(r) == Suggests(r) /\ r.can_handle

\* C18: check_skills evaluates every registered skill once, in order, with
\* no early exit; a skill whose evaluate raises gives neither the override
\* nor a suggestion, the other skills count as if it were not registered,
\* and check_skills itself does not raise.
C18_FaultIsolation ==
    pc = "checked" =>
        /\ skill_ret.evaluated = [i \in 1..Len(skill_evals) |-> skill_evals[i].name]
        /\ ~skill_ret.raised
        /\ \A i \in 1..Len(skill_evals) : skill_evals[i].raises =>
              /\ skill_ret.override # << skill_evals[i] >>
              /\ \A k \in 1..Len(skill_ret.suggestions) :
                    skill_ret.suggestions[k][1] # skill_evals[i].name
        /\ skill_ret.override = EarliestBest(HandlesAndOverrides)
        /\ skill_ret.suggestions = SuggestionsOf(HandlesAndSuggests)

\* The first skill raised and the second one still gave the override and
\* its suggestion.
C18_Witness ==
    /\ pc = "checked"
    /\ Len(skill_evals) = 2
    /\ skill_evals[1].raises
    /\ HandlesAndOverrides(skill_evals[2])
    /\ skill_ret.override = << skill_evals[2] >>
    /\ skill_ret.suggestions = << <<skill_evals[2].name, "hint">> >>
    /\ Len(skill_ret.evaluated) = 2

\* C19 as stated: the suggestion list holds, in registration order, the
\* suggestion of every skill whose result has a non-empty one, whatever the
\* other fields of the result are.
C19_EverySuggestion ==
    pc = "checked" => skill_ret.suggestions = SuggestionsOf(Suggests)

\* C19, amended: the suggestion list holds, in registration order, the
\* suggestion (prefixed with the skill's name) of every skill whose result
\* has can_handle true and a non-empty suggestion, whatever its override_llm
\* flag and confidence are; the other skills contribute nothing.
C19_HandledSuggestions ==
    pc = "checked" => skill_ret.suggestions = SuggestionsOf(HandlesAndSuggests)

\* An overriding and an advisory result both gave their suggestion.
C19_Witness ==
    /\ pc = "checked"
    /\ Len(skill_evals) = 2
    /\ HandlesAndOverrides(skill_evals[1])
    /\ ~skill_evals[2].override_llm
    /\ HandlesAndSuggests(skill_evals[2])
    /\ skill_ret.suggestions = << <<skill_evals[1].name, "hint">>,
                                  <<skill_evals[2].name, "hint">> >>

(***************************************************************************)
(* Properties of MemoryStore.retrieve                                      *)
(***************************************************************************)
\* C20: retrieve(query, top_k) with top_k >= 0 returns at most top_k
\* memories, none of them twice; the access_count of each returned memory
\* is one more than before the call and that of every other memory is
\* unchanged.
C20_RetrieveBounded ==
    [][ retrieval'.calls # retrieval.calls =>
           /\ Len(retrieval'.result) <= retrieval'.top_k
           /\ \A i, j \in 1..Len(retrieval'.result) :
                 retrieval'.result[i] = retrieval'.result[j] => i = j
           /\ \A i \in 1..Len(retrieval'.result) : retrieval'.result[i] \in 1..Len(memories)
           /\ Len(memories') = Len(memories)
           /\ \A m \in 1..Len(memories) :
                 memories'[m].access_count =
                     memories[m].access_count
                       + (IF \E k \in 1..Len(retrieval'.result) : retrieval'.result[k] = m
                          THEN 1 ELSE 0) ]_vars

\* Two calls with top_k = 1 over two memories returned the second memory
\* both times: it was accessed twice and the first one never.
C20_Witness ==
    /\ retrieval.calls = 2
    /\ retrieval.top_k = 1
    /\ Len(memories) = 2
    /\ retrieval.result = <<2>>
    /\ memories[2].access_count = 2
    /\ memories[1].access_count = 0

\* A retrieve call whose query is the content of the memory that store
\* appended last, with top_k >= 1.
RetrievesLastStored ==
    /\ retrieval'.calls # retrieval.calls
    /\ retrieval'.top_k >= 1
    /\ memories # <<>>
    /\ memories[Len(memories)].embedding # NoneV
    /\ retrieval'.query = memories[Len(memories)].content

\* The first returned memory is the one stored last or one as similar to
\* the query as it.
LastStoredOnTop(r, mems) ==
    \/ r.result[1] = Len(mems)
    \/ r.sims[r.result[1]] = r.sims[Len(mems)]

\* C21 (as stated): store(c) followed by retrieve(c, k), k >= 1, returns a
\* non-empty list whose first element is the stored memory or one of equal
\* similarity, under both strategies.
C21_StoredOnTop ==
    [][ RetrievesLastStored =>
           /\ retrieval'.result # <<>>
           /\ LastStoredOnTop(retrieval', memories) ]_vars

\* C21 (amended): the first element of the list, when there is one, is the
\* stored memory or one of equal similarity; the list is non-empty under
\* the hash strategy, and under the n-gram strategy when the content has an
\* n-gram.
C21_StoredOnTopUnlessBlank ==
    [][ RetrievesLastStored =>
           /\ retrieval'.result = <<>> =>
                 retrieval'.strategy = "ngram" /\ Blank(retrieval'.query)
           /\ retrieval'.result # <<>> => LastStoredOnTop(retrieval', memories) ]_vars

\* One store wrote the second record of the file and the one retrieve that
\* followed, under the n-gram strategy and with the stored content as the
\* query, returned that memory first.
C21_Witness ==
    /\ retrieval.calls = 1
    /\ retrieval.strategy = "ngram"
    /\ retrieval.top_k >= 1
    /\ Len(memories) = 2
    /\ corpus_file # <<>>
    /\ Len(corpus_file[1]) = 2
    /\ corpus_file[1][2] = Memory(retrieval.query, 1)
    /\ retrieval.result # <<>>
    /\ retrieval.result[1] = 2
    /\ memories[2].access_count = 1

\* C22 (as stated): retrieve returns memories in non-increasing order of
\* similarity to the query, and memories of equal similarity in their
\* insertion order, under both strategies.
C22_RankedStable ==
    [][ retrieval'.calls # retrieval.calls =>
           \A i, j \in 1..Len(retrieval'.result) : i < j =>
               LET a == retrieval'.result[i]
                   b == retrieval'.result[j]
               IN  \/ retrieval'.sims[a] > retrieval'.sims[b]
                   \/ retrieval'.sims[a] = retrieval'.sims[b] /\ a < b ]_vars

SameRecord(m1, m2) ==
    /\ m1.id = m2.id
    /\ m1.content = m2.content
    /\ m1.embedding = m2.embedding

\* C23: across store and retrieve calls the corpus is append-only: every
\* step leaves the id, content, embedding and position of every existing
\* record as they were, store adds exactly one record at the end, and
\* retrieve adds, removes and reorders nothing.
C23_AppendOnly ==
    [][ /\ Len(memories') \in { Len(memories), Len(memories) + 1 }
        /\ \A i \in 1..Len(memories) : SameRecord(memories'[i], memories[i])
        /\ retrieval'.calls # retrieval.calls => Len(memories') = Len(memories)
        /\ retrieval'.calls = retrieval.calls /\ memories' # memories =>
              Len(memories') = Len(memories) + 1 ]_vars

\* Two memories were stored and then retrieved twice, the second one first:
\* both are still at their positions with their ids.
C23_Witness ==
    /\ Len(memories) = 2
    /\ retrieval.calls = 2
    /\ retrieval.result = << 2, 1 >>
    /\ memories[1].id[2] = 0
    /\ memories[2].id[2] = 1
    /\ memories[1].access_count = 2
    /\ corpus_file = _save([i \in 1..2 |-> [memories[i] EXCEPT !.access_count = 0]])

(***************************************************************************)
(* Properties of the corpus file                                           *)
(***************************************************************************)
\* Every entry of the list has the fields without default and no key that
\* is not a field.
Loadable(data) ==
    \A i \in 1..Len(data) :
        RequiredFields \subseteq DOMAIN data[i] /\ DOMAIN data[i] \subseteq MemoryFields

\* The memories are the entries of the list, in order, each with the values
\* the entry has and the defaults for the fields it lacks.
LoadedFrom(mems, data) ==
    /\ Len(mems) = Len(data)
    /\ \A i \in 1..Len(data) : \A f \in MemoryFields :
          mems[i][f] = IF f \in DOMAIN data[i] THEN data[i][f] ELSE FieldDefaults[f]

LastEmitted(n) ==
    LET kept == IF n <= HistoryLimit THEN n ELSE HistoryLimit
    IN  [i \in 1..kept |-> Numbered(n - kept + i)]

\* C24: the history never holds more than 1000 events, and after n emit
\* calls it is the last min(n, 1000) emitted events in emission order: the
\* newest event is the last entry and a full buffer lost its oldest one.
C24_BoundedHistory ==
    /\ Len(event_history) <= HistoryLimit
    /\ pc = "bus" => event_history = LastEmitted(dispatch.emits)

\* The emit call after the one that filled the buffer: the first event is
\* gone and the newest is the last of 1000.
C24_Witness ==
    /\ pc = "bus"
    /\ dispatch.emits = HistoryLimit + 1
    /\ Len(event_history) = HistoryLimit
    /\ event_history[1] = Numbered(2)
    /\ event_history[HistoryLimit] = Numbered(HistoryLimit + 1)

\* C25: emit records the event before any handler is invoked and invokes
\* every subscribed handler once, in registration order; a handler that
\* raises neither stops the later handlers nor changes the history, and no
\* exception leaves emit.
C25_HandlerIsolation ==
    /\ [](pc = "bus" =>
            /\ ~dispatch.raised
            /\ \A j \in 1..Len(dispatch.delivered) :
                  dispatch.delivered[j].handler = j /\ dispatch.delivered[j].recorded)
    /\ [][ /\ dispatch.event # <<>> => event_history' = event_history
           /\ dispatch.event # <<>> /\ dispatch'.event = <<>> =>
                 Len(dispatch'.delivered) = Len(handlers) ]_vars

\* An emit call returned after invoking a handler that raises and then the
\* logging handler.
C25_Witness ==
    /\ pc = "bus"
    /\ dispatch.emits >= 1
    /\ dispatch.event = <<>>
    /\ handlers = << "raises", "_log_events" >>
    /\ Len(dispatch.delivered) = 2
    /\ event_history[Len(event_history)] = Numbered(dispatch.emits)

(***************************************************************************)
(* Properties of the events of the orchestrator                            *)
(***************************************************************************)
\* C27 as stated: when the oracle call of generate_summary fails (missing
\* key, transport error, HTTP error status, malformed body), the summary
\* reported is the status template of the final status, and REPORT and
\* COMPLETION are the last two events emitted.
C27_SummaryDegrades ==
    [][ (pc = "complete" /\ pc' = "done" /\ oracle_failed') =>
           LET n == Len(event_history')
           IN  /\ n >= 2
               /\ event_history'[n - 1] = ReportEvent(StatusTemplate(mission'.status))
               /\ event_history'[n] = CompletionEvent(mission') ]_vars

\* The executions through the registry, so far, of registered capabilities
\* of high or critical risk: the positions of their actions in the plan.
GatedExecutions ==
    SelectSeq(calls, LAMBDA c : /\ c[1] = "execute"
                                /\ plan[c[2]].capability \in DOMAIN capabilities
                                /\ NeedsSafetyCheck(capabilities, plan[c[2]].capability))

Audits == SelectSeq(event_history, LAMBDA e : e.type = "SAFETY_CHECK")

\* The position in the log of calls of the first call of this kind for i.
CallPosition(kind, i) ==
    CHOOSE n \in 1..Len(calls) :
        /\ calls[n] = <<kind, i>>
        /\ \A m \in 1..(n - 1) : calls[m] # <<kind, i>>

\* C28: under the default safety policy, every execution through the
\* registry of a registered capability of high or critical risk emits one
\* SAFETY_CHECK event naming the capability and its parameters, in the order
\* of the executions and before the action runs, and the action is then
\* approved and invoked.
C28_SafetyAudit ==
    (pc \in {"exec_seq", "exec_par", "exec_gather", "exec_dep", "exec_return"}
       /\ safety_check_callback = "_check_safety") =>
        /\ Len(Audits) = Len(GatedExecutions)
        /\ \A k \in 1..Len(GatedExecutions) :
              LET i == GatedExecutions[k][2]
              IN  /\ Audits[k] = AgentEvent("SAFETY_CHECK",
                                            [capability |-> plan[i].capability,
                                             params |-> plan[i].params])
                  /\ HasCall("safety", i)
                  /\ HasCall("action", i)
                  /\ CallPosition("safety", i) < CallPosition("action", i)
        /\ \A i \in 1..Len(plan) : \A n \in 1..Len(event_history) :
              (/\ event_history[n].type = "ACTION"
               /\ \E k \in 1..Len(GatedExecutions) : GatedExecutions[k][2] = i
               /\ event_history[n].content.capability = plan[i].capability) =>
                  \E m \in 1..(n - 1) :
                      event_history[m] = AgentEvent("SAFETY_CHECK",
                                                    [capability |-> plan[i].capability,
                                                     params |-> plan[i].params])

\* A plan ended in which the registered capability of critical risk was
\* executed and returned, after the audit event and before its ACTION event.
C28_Witness ==
    /\ pc = "exec_return"
    /\ safety_check_callback = "_check_safety"
    /\ capabilities["custom"] = "critical"
    /\ \E i \in 1..Len(plan) :
          /\ plan[i].capability = "custom"
          /\ HasCall("return", i)
          /\ results[i].success
    /\ Len(Audits) >= 1
    /\ event_history[Len(event_history)].type = "ACTION"

(***************************************************************************)
(* Properties of the reflection loop and of the priority tags              *)
(***************************************************************************)
\* C26 as stated: after a step decided by reasoning in which a non-critical
\* action returned a failed result, working memory names a failed action of
\* that step, with its capability and its error text.
C26_FailureVisible ==
    [][ (/\ pc = "exec_return" /\ pc' = "pace"
         /\ plan_source = "oracle"
         /\ \E j \in 1..Len(results) :
               ~results[j].success /\ ~plan[results[j].src].critical) =>
           \E j \in 1..Len(results) :
               /\ ~results[j].success
               /\ working_memory' = << plan[results[j].src].capability, results[j].error >> ]_vars

\* The registry with other tags on the same skills.
Retagged(evals, tags) == [i \in 1..Len(evals) |-> Tagged(Untagged(evals[i]), tags[i])]

\* What check_skills hands to the loop: the override and the suggestions.
Outcome(ret) ==
    [override |-> [k \in 1..Len(ret.override) |-> Untagged(ret.override[k])],
     suggestions |-> ret.suggestions]

CallsAbout(i) == { n \in 1..Len(calls) : calls[n][2] = i }

\* C32: with parallel execution enabled, nothing is done for a dependent
\* action (validation included) before every independent action has its
\* result; the dependent actions are then taken one at a time in listed
\* order, and each of them is validated and executed whether or not the
\* independent actions succeeded.
C32_DependentsAfterBatch ==
    (parallel_actions /\ Executing) =>
        /\ \A i \in 1..Len(plan) : (plan[i].depends_on /\ CallsAbout(i) # {}) =>
              /\ \A j \in 1..Len(plan) : ~plan[j].depends_on =>
                    /\ \E n \in 1..Len(results) : results[n].src = j
                    /\ \A n \in CallsAbout(i), m \in CallsAbout(j) : m < n
              /\ \A j \in 1..(i - 1) : plan[j].depends_on =>
                    /\ \E n \in 1..Len(results) : results[n].src = j
                    /\ \A n \in CallsAbout(i), m \in CallsAbout(j) : m < n
        /\ pc = "exec_return" =>
              \A i \in 1..Len(plan) : plan[i].depends_on =>
                  /\ HasCall("validate", i)
                  /\ Cardinality({n \in 1..Len(results) : results[n].src = i}) = 1
                  /\ ( /\ ~FailsValidation(plan[i])
                       /\ plan[i].capability \in DOMAIN capabilities
                       /\ \/ capabilities[plan[i].capability] \in {"low", "medium"}
                          \/ safety_check_callback = "_check_safety" )
                        => HasCall("action", i)

\* A dependent action listed first ran after the independent action listed
\* second had returned a failed result.
C32_Witness ==
    /\ parallel_actions
    /\ pc = "exec_return"
    /\ Len(plan) = 2
    /\ plan[1].depends_on /\ ~plan[2].depends_on
    /\ \E n \in 1..Len(results) : results[n].src = 2 /\ ~results[n].success
    /\ HasCall("return", 2)
    /\ HasCall("return", 1)

\* C37 as stated: the i-th result _execute_plan returns is the result of
\* the i-th action of the plan, in sequential and in parallel mode.
C37_ResultsByPosition ==
    pc = "exec_return" =>
        \A i \in 1..Len(results) : i <= Len(plan) /\ results[i].src = i

(***************************************************************************)
(* Properties of the thought history                                       *)
(***************************************************************************)
\* The loop is between two steps, or in a step that has produced no Thought.
BetweenSteps == pc \in {"loop_top", "observe", "backoff", "skills", "reason", "pace"}

\* C33 as stated: between steps the length of the history equals
\* current_step.
C33_HistoryCountsSteps ==
    BetweenSteps => Len(thought_history) = mission.current_step

\* C33, amended: each completed step appends exactly one Thought, whose step
\* field is current_step at that time (the pseudo-Thought of the override,
\* otherwise the Thought of reason()); an iteration that ends in a
\* recoverable error appends none.  The step fields are consecutive, hence
\* strictly increasing, and start at the current_step the mission started
\* with; between steps the last one is current_step - 1, so the length of
\* the history is current_step for a mission that was not resumed and less
\* for a resumed one.
C33_OneThoughtPerStep ==
    /\ [](BetweenSteps =>
            /\ thought_history # <<>> =>
                  LastThought(thought_history).step = mission.current_step - 1
            /\ ~resume => Len(thought_history) = mission.current_step
            /\ Len(thought_history) <= mission.current_step)
    /\ [](pc # "idle" =>
            \A k \in 1..Len(thought_history) :
                thought_history[k].step = thought_history[1].step + k - 1)
    /\ [][ (pc # "idle" /\ mission'.current_step # mission.current_step) =>
              /\ mission'.current_step = mission.current_step + 1
              /\ thought_history' # <<>>
              /\ LastThought(thought_history').step = mission.current_step
              /\ plan_source = "skill" => LastThought(thought_history').reasoning = "skill"
              /\ Cardinality({k \in 1..Len(thought_history') :
                                 thought_history'[k].step = mission.current_step}) = 1 ]_vars
    /\ [][ (thought_history = <<>> /\ thought_history' # <<>>) =>
              thought_history'[1].step = mission.current_step ]_vars
    /\ [][ (pc \in {"loop_top", "observe", "backoff"} /\ pc' # "idle") =>
              thought_history' = thought_history ]_vars

\* A mission resumed at step 1 on a fresh orchestrator completed that step:
\* one Thought, numbered 1, and current_step 2.
C33_Witness ==
    /\ pc = "pace"
    /\ resume
    /\ mission.current_step = 2
    /\ Len(thought_history) = 1
    /\ thought_history[1].step = 1

C39_StopIsPermanent ==
    /\ [][ stop_event => stop_event' ]_vars
    /\ []((Len(EventsOfType("COMPLETION")) >= 1 /\ pc # "done") =>
            /\ stop_event
            /\ pc \in {"loop_top", "complete"}
            /\ mission.status = "RUNNING")
    /\ []((Len(EventsOfType("COMPLETION")) >= 2 /\ pc = "done") =>
            stop_event /\ mission.status = "COMPLETED")
    /\ [][ (pc = "done" /\ pc' # "done") =>
              /\ pc' = "loop_top"
              /\ mission'.status = "RUNNING"
              /\ event_history' = event_history ]_vars
    /\ [][ (Len(EventsOfType("COMPLETION")) >= 1 /\ pc \in {"loop_top", "complete"}) =>
              /\ mission'.current_step = mission.current_step
              /\ thought_history' = thought_history
              /\ observation' = observation
              /\ state_file' = state_file
              /\ calls' = calls /\ results' = results /\ skill_ret' = skill_ret
              /\ pc' \in {pc, "complete", "done"}
              /\ pc' = "done" =>
                    /\ mission'.status = "COMPLETED"
                    /\ Len(event_history') = Len(event_history) + 2 ]_vars

\* A second mission, resumed from the record of the first after stop(),
\* ended Completed at the step of the record.
C39_Witness ==
    /\ pc = "done"
    /\ stop_event
    /\ Len(EventsOfType("COMPLETION")) = 2
    /\ resume
    /\ state_file # <<>>
    /\ mission.current_step = state_file[1].current_step
    /\ mission.current_step = 1
    /\ mission.status = "COMPLETED"
    /\ Len(EventsOfType("OBSERVATION")) = 1

\* The responses the loop of _request_with_retry answers with a sleep.
Retryable(out) == out.error = NoneV /\ (out.status = 429 \/ out.status >= 500)

PositionIn(seq, e) == CHOOSE k \in 1..Len(seq) : seq[k] = e

\* C34: every handler receives the events in the order of the history: of
\* two events a handler was called with, the one it was called with first is
\* the one that was emitted, and stands in the history, first.
C34_DispatchInEmissionOrder ==
    \A h \in 1..Len(received) :
        \A a, b \in 1..Len(received[h]) :
            a < b => PositionIn(event_history, received[h][a])
                        < PositionIn(event_history, received[h][b])

\* The step counter is within the mission's budget.
StepBudgetKept == mission.current_step <= mission.max_steps

\* C31: one run loop per orchestrator: no second loop is alive while a loop
\* runs, so no step starts while another is in progress, and the step
\* counter stays within the budget.
C31_OneLoopAtATime ==
    /\ ~(other # <<>> /\ other[1].pc # "done" /\ pc # "done")
    /\ StepBudgetKept

\* The last three thoughts carry one observation summary.
Stagnant(history) ==
    /\ Len(history) >= 3
    /\ \A k \in Len(history) - 2..Len(history) :
          /\ history[k].observation # NoneV
          /\ history[k].observation = history[Len(history)].observation

\* The history as it was when the step in progress started: reason has
\* appended its thought by the time the plan runs.
HistoryAtStart ==
    IF pc \in {"exec_seq", "exec_return"} /\ plan_source = "oracle"
    THEN SubSeq(thought_history, 1, Len(thought_history) - 1)
    ELSE thought_history

====
